---------------------------- MODULE Spec2Model ----------------------------
(***************************************************************************)
(* Model of pyat/at/physics.py: find_orbit4, find_m44,                     *)
(* betatron_phase_unwrap and get_twiss, together with the tracker          *)
(* (at.lattice_pass) they drive.                                           *)
(*                                                                         *)
(* NUMBERS.  A float is modelled by an exact extended rational <<n, d>>:   *)
(* d > 0 and gcd(n, d) = 1 for a finite value, <<1, 0>> and <<-1, 0>> for  *)
(* +inf and -inf, <<0, 0>> for NaN.  Arithmetic follows IEEE-754 on these  *)
(* values (x/0 = inf, 0/0 = NaN, inf - inf = NaN, every comparison with    *)
(* NaN false); rounding and the sign of zero are not modelled.             *)
(*                                                                         *)
(* UNITS.  Phase-space coordinates and the momentum deviation are counted  *)
(* in units of 1e-12, so that CONVERGENCE = 1e-12 is the number 1 and      *)
(* STEP_SIZE = 1e-6 is the number 1000000.  Matrix entries are plain       *)
(* ratios.  Angles are counted in units of pi / 2000.                      *)
(***************************************************************************)
EXTENDS Integers, Sequences, FiniteSets, TLC

(***************************************************************************)
(* Extended rational arithmetic                                            *)
(***************************************************************************)
Abs(n) == IF n < 0 THEN -n ELSE n

Sgn(n) == IF n > 0 THEN 1 ELSE IF n < 0 THEN -1 ELSE 0

RECURSIVE GCD(_, _)
GCD(a, b) == IF b = 0 THEN a ELSE GCD(b, a % b)

\* The value n/d in lowest terms; a zero denominator gives inf, -inf or NaN.
Q(n, d) ==
    IF d = 0 THEN <<Sgn(n), 0>>
    ELSE LET g == GCD(Abs(n), Abs(d))
         IN  <<Sgn(d) * (n \div g), Abs(d) \div g>>

R(n) == <<n, 1>>

NaN == <<0, 0>>

PosInf == <<1, 0>>

IsNaN(a) == a = NaN

IsInf(a) == a[2] = 0 /\ a[1] # 0

IsFinite(a) == a[2] # 0

RSign(a) == Sgn(a[1])

RNeg(a) == <<-a[1], a[2]>>

RAdd(a, b) ==
    IF IsNaN(a) \/ IsNaN(b) THEN NaN
    ELSE IF IsInf(a) /\ IsInf(b) THEN (IF a = b THEN a ELSE NaN)
    ELSE IF IsInf(a) THEN a
    ELSE IF IsInf(b) THEN b
    ELSE LET g == GCD(a[2], b[2])
         IN  Q(a[1] * (b[2] \div g) + b[1] * (a[2] \div g), (a[2] \div g) * b[2])

RSub(a, b) == RAdd(a, RNeg(b))

RMul(a, b) ==
    IF IsNaN(a) \/ IsNaN(b) THEN NaN
    ELSE IF IsInf(a) \/ IsInf(b) THEN <<RSign(a) * RSign(b), 0>>
    ELSE LET g1 == GCD(Abs(a[1]), b[2])
             g2 == GCD(Abs(b[1]), a[2])
         IN  IF a[1] = 0 \/ b[1] = 0 THEN R(0)
             ELSE Q((a[1] \div g1) * (b[1] \div g2), (a[2] \div g2) * (b[2] \div g1))

\* 1/a; a zero has no sign here, so 1/0 is +inf.
RInv(a) ==
    IF IsNaN(a) THEN NaN
    ELSE IF IsInf(a) THEN R(0)
    ELSE IF a[1] = 0 THEN PosInf
    ELSE Q(a[2], a[1])

RDiv(a, b) ==
    IF IsNaN(a) \/ IsNaN(b) THEN NaN
    ELSE IF IsInf(a) /\ IsInf(b) THEN NaN
    ELSE IF IsFinite(a) /\ IsFinite(b) /\ b[1] = 0 THEN <<RSign(a), 0>>
    ELSE RMul(a, RInv(b))

RSq(a) == RMul(a, a)

RLt(a, b) ==
    /\ ~IsNaN(a) /\ ~IsNaN(b)
    /\ IF IsInf(a) \/ IsInf(b)
       THEN (a = <<-1, 0>> /\ b # <<-1, 0>>) \/ (b = <<1, 0>> /\ a # <<1, 0>>)
       ELSE a[1] * b[2] < b[1] * a[2]

RGt(a, b) == RLt(b, a)

RLe(a, b) == ~IsNaN(a) /\ ~IsNaN(b) /\ ~RLt(b, a)

RECURSIVE ISqrtFrom(_, _)
ISqrtFrom(n, k) == IF (k + 1) * (k + 1) > n THEN k ELSE ISqrtFrom(n, k + 1)

\* The square root of a number that is not negative.  It is exact on the
\* squares of rationals, the only arguments the rings of this model lead
\* to; elsewhere numerator and denominator are rounded down.
RSqrt(a) ==
    IF IsNaN(a) \/ IsInf(a) THEN a
    ELSE Q(ISqrtFrom(a[1], 0), ISqrtFrom(a[2], 0))

(***************************************************************************)
(* Angles, in units of pi / 2000.  numpy.arctan is modelled by the odd,    *)
(* strictly increasing function through its values at 0, 1/4, 1/2, 3/4     *)
(* and 1 (rounded to the unit), linear between them, with                  *)
(* arctan(q) = pi/2 - arctan(1/q) above 1 and arctan(inf) = pi/2.          *)
(***************************************************************************)
Pi == 2000

HalfPi == R(Pi \div 2)

ArctanUnit(q) ==
    LET seg(t0, v0, v1) ==
            RAdd(R(v0), RMul(RSub(q, t0), R(4 * (v1 - v0))))
    IN  IF RLe(q, Q(1, 4)) THEN seg(R(0), 0, 156)
        ELSE IF RLe(q, Q(1, 2)) THEN seg(Q(1, 4), 156, 295)
        ELSE IF RLe(q, Q(3, 4)) THEN seg(Q(1, 2), 295, 410)
        ELSE seg(Q(3, 4), 410, Pi \div 4)

ArctanPos(q) ==
    IF IsInf(q) THEN HalfPi
    ELSE IF RLe(q, R(1)) THEN ArctanUnit(q)
    ELSE RSub(HalfPi, ArctanUnit(RInv(q)))

Arctan(q) ==
    IF IsNaN(q) THEN NaN
    ELSE IF RLt(q, R(0)) THEN RNeg(ArctanPos(RNeg(q)))
    ELSE ArctanPos(q)

(***************************************************************************)
(* Vectors and matrices.  A vector is a tuple of numbers, a matrix a tuple *)
(* of rows.                                                                *)
(***************************************************************************)
Zero4 == <<R(0), R(0), R(0), R(0)>>

Take4(v) == <<v[1], v[2], v[3], v[4]>>

VSub(u, v) == [i \in 1..Len(u) |-> RSub(u[i], v[i])]

RECURSIVE SumSq(_, _)
SumSq(v, n) == IF n = 0 THEN R(0) ELSE RAdd(SumSq(v, n - 1), RSq(v[n]))

\* The square of numpy.linalg.norm(v).
NormSq(v) == SumSq(v, Len(v))

Identity2 == <<<<R(1), R(0)>>, <<R(0), R(1)>>>>

MatMul2(m, n) ==
    [i \in 1..2 |-> [j \in 1..2 |->
        RAdd(RMul(m[i][1], n[1][j]), RMul(m[i][2], n[2][j]))]]

MatVec2(m, v) ==
    [i \in 1..2 |-> RAdd(RMul(m[i][1], v[1]), RMul(m[i][2], v[2]))]

Det2(m) == RSub(RMul(m[1][1], m[2][2]), RMul(m[1][2], m[2][1]))

\* The 2x2 block of a 4x4 matrix for plane pl (0: x, px; 1: y, py).
Block(m, pl) ==
    [i \in 1..2 |-> [j \in 1..2 |-> m[2 * pl + i][2 * pl + j]]]

\* TRUE when the two planes of a 4x4 matrix are not coupled.
Uncoupled(m) ==
    \A i \in 1..4 : \A j \in 1..4 :
        ((i <= 2) # (j <= 2)) => m[i][j] = R(0)

(***************************************************************************)
(* numpy.linalg.lstsq(a, b): the least-squares solution of a x = b of      *)
(* least norm.  For a 2x2 matrix: the inverse applied to b at rank 2, the  *)
(* pseudo-inverse transpose(a) / |a|_F^2 applied to b at rank 1, and 0 at  *)
(* rank 0.  For a 4x4 matrix with uncoupled planes the solution is the     *)
(* two plane solutions side by side; the trackers of this model do not     *)
(* couple the planes.                                                      *)
(***************************************************************************)
Lstsq2(m, v) ==
    LET det == Det2(m)
        fro == RAdd(RAdd(RSq(m[1][1]), RSq(m[1][2])),
                    RAdd(RSq(m[2][1]), RSq(m[2][2])))
    IN  IF det # R(0)
        THEN <<RDiv(RSub(RMul(m[2][2], v[1]), RMul(m[1][2], v[2])), det),
               RDiv(RSub(RMul(m[1][1], v[2]), RMul(m[2][1], v[1])), det)>>
        ELSE IF fro = R(0) THEN <<R(0), R(0)>>
        ELSE <<RDiv(RAdd(RMul(m[1][1], v[1]), RMul(m[2][1], v[2])), fro),
               RDiv(RAdd(RMul(m[1][2], v[1]), RMul(m[2][2], v[2])), fro)>>

Lstsq4(a, b) ==
    LET sx == Lstsq2(Block(a, 0), <<b[1], b[2]>>)
        sy == Lstsq2(Block(a, 1), <<b[3], b[4]>>)
    IN  <<sx[1], sx[2], sy[1], sy[2]>>

(***************************************************************************)
(* Program constants of find_orbit4, in units of 1e-12.                    *)
(***************************************************************************)
STEP_SIZE == 1000000

MAX_ITERATIONS == 20

CONVERGENCE == 1

\* XYDEFSTEP = 6.055454452393343e-006, in units of 1e-12 and rounded to
\* the unit.
XYDEFSTEP == 6055454

\* change = 1 before the loop, that is 1e12 units.  The model keeps the
\* square of change, and the square of 1e12 is beyond the integers of the
\* checker: this value stands for it.  It is read once, by the loop test
\* before the first iteration, which only asks whether it is above
\* CONVERGENCE.
InitialChange == Q(STEP_SIZE, 1)

(***************************************************************************)
(* Bounds of the model.                                                    *)
(***************************************************************************)
\* The black-box tracker keeps the Newton iterate within this distance of 0.
MaxOrbit == 1

(***************************************************************************)
(* The lattice and the tracker (at.lattice_pass).  A ring is a sequence of *)
(* elements; the tracker carries a 6-vector <<x, px, y, py, dp, ct>>       *)
(* through them.                                                           *)
(*   drift     x += L px, y += L py, ct += L                               *)
(*   lens      px += -kx x + cx + hx dp, py += -ky y + cy  (a thin linear  *)
(*             kick: focusing strength, steering kick, dispersive kick);   *)
(*             off momentum (dp # 0) the strengths are qx and qy           *)
(*   sext      px += -kx x^2, py += -ky y^2  (a thin nonlinear kick, which  *)
(*             is a symplectic map)                                        *)
(*   kink      a nonlinear element whose slope over one STEP_SIZE differs  *)
(*             from its local slope                                        *)
(*   blackbox  a tracker of which nothing is known: each call answers with *)
(*             any shift of the reference particle                         *)
(***************************************************************************)
None == <<-1>>

ElemQ(kind, L, kx, ky, cx, cy, hx, qx, qy) ==
    [kind |-> kind, L |-> L, kx |-> kx, ky |-> ky, cx |-> cx, cy |-> cy,
     hx |-> hx, qx |-> qx, qy |-> qy]

Elem(kind, L, kx, ky, cx, cy, hx) == ElemQ(kind, L, kx, ky, cx, cy, hx, kx, ky)

\* A lens of strengths kx, ky on momentum and qx, qy off momentum, with a
\* dispersive kick hx.
ChromLens(kx, ky, qx, qy, hx) == ElemQ("lens", R(0), kx, ky, R(0), R(0), hx, qx, qy)

Drift(L) == Elem("drift", L, R(0), R(0), R(0), R(0), R(0))

Lens(kx, ky, cx, cy, hx) == Elem("lens", R(0), kx, ky, cx, cy, hx)

Sext(kx, ky) == Elem("sext", R(0), kx, ky, R(0), R(0), R(0))

Kink == Elem("kink", R(0), R(0), R(0), R(0), R(0), R(0))

BlackBox == Elem("blackbox", R(0), R(0), R(0), R(0), R(0), R(0))

IsBlackBox(rng) == \E i \in 1..Len(rng) : rng[i].kind = "blackbox"

ElemPass(e, v) ==
    CASE e.kind = "drift" ->
           <<RAdd(v[1], RMul(e.L, v[2])), v[2],
             RAdd(v[3], RMul(e.L, v[4])), v[4], v[5], RAdd(v[6], e.L)>>
      [] e.kind = "lens" ->
           <<v[1],
             RAdd(RSub(v[2], RMul(IF v[5] = R(0) THEN e.kx ELSE e.qx, v[1])),
                  RAdd(e.cx, RMul(e.hx, v[5]))),
             v[3],
             RAdd(RSub(v[4], RMul(IF v[5] = R(0) THEN e.ky ELSE e.qy, v[3])), e.cy),
             v[5], v[6]>>
      [] e.kind = "sext" ->
           <<v[1], RSub(v[2], RMul(e.kx, RSq(v[1]))),
             v[3], RSub(v[4], RMul(e.ky, RSq(v[3]))), v[5], v[6]>>
      [] e.kind = "kink" ->
           <<IF RLt(RMul(R(2), v[1]), R(STEP_SIZE))
             THEN RSub(RMul(R(3), v[1]), R(2))
             ELSE RSub(RMul(R(3), v[1]), R(STEP_SIZE + 2)),
             RNeg(v[2]), RNeg(v[3]), RNeg(v[4]), v[5], v[6]>>
      [] OTHER -> v

\* The particle v after the first k elements of the ring.
RECURSIVE Track(_, _, _)
Track(rng, v, k) ==
    IF k = 0 THEN v ELSE ElemPass(rng[k], Track(rng, v, k - 1))

\* The shifts the black box may answer with: x and y move by whole units,
\* and the Newton iterate they lead to stays within MaxOrbit.
BlackBoxShifts(ref) ==
    { s \in (-1..1) \X (-1..1) :
        /\ RLe(RSub(ref[1], R(s[1])), R(MaxOrbit))
        /\ RLe(R(-MaxOrbit), RSub(ref[1], R(s[1])))
        /\ RLe(RSub(ref[3], R(s[2])), R(MaxOrbit))
        /\ RLe(R(-MaxOrbit), RSub(ref[3], R(s[2]))) }

\* The black box's answer for shift s: about the reference particle ref
\* (the last of the batch) it doubles every transverse offset.
BlackBoxPass(ref, v, s, k) ==
    IF k = 0 THEN v
    ELSE <<RAdd(RAdd(ref[1], R(s[1])), RMul(R(2), RSub(v[1], ref[1]))),
           RAdd(ref[2], RMul(R(2), RSub(v[2], ref[2]))),
           RAdd(RAdd(ref[3], R(s[2])), RMul(R(2), RSub(v[3], ref[3]))),
           RAdd(ref[4], RMul(R(2), RSub(v[4], ref[4]))),
           v[5], v[6]>>

\* at.lattice_pass(ring, in_mat, refpts=...): the set of answers the
\* tracker may give, out[particle][refpt] a 6-vector.  Reference point k
\* is the entrance of element k, Len(ring) the end of the ring; without
\* reference points the tracker reports the end of the ring.
LatticePass(rng, in_mat, pts) ==
    LET at == IF pts = None THEN <<Len(rng)>> ELSE pts
    IN  IF IsBlackBox(rng)
        THEN { [p \in 1..Len(in_mat) |-> [k \in 1..Len(at) |->
                   BlackBoxPass(in_mat[Len(in_mat)], in_mat[p], s, at[k])]] :
               s \in BlackBoxShifts(in_mat[Len(in_mat)]) }
        ELSE { [p \in 1..Len(in_mat) |-> [k \in 1..Len(at) |->
                   Track(rng, in_mat[p], at[k])]] }

(***************************************************************************)
(* The one-turn map of a ring of drifts and lenses, written out from the   *)
(* elements: r -> A r + c per plane.  The claims compare what the          *)
(* operations compute by tracking with these.                              *)
(***************************************************************************)
AffineRing(rng) == \A i \in 1..Len(rng) : rng[i].kind \in {"drift", "lens"}

ElemMatrix(e, pl) ==
    IF e.kind = "drift" THEN <<<<R(1), e.L>>, <<R(0), R(1)>>>>
    ELSE <<<<R(1), R(0)>>, <<RNeg(IF pl = 0 THEN e.kx ELSE e.ky), R(1)>>>>

\* The matrix of the first k elements, plane pl.
RECURSIVE SegmentMatrix(_, _, _)
SegmentMatrix(rng, pl, k) ==
    IF k = 0 THEN Identity2
    ELSE MatMul2(ElemMatrix(rng[k], pl), SegmentMatrix(rng, pl, k - 1))

OneTurnMatrix(rng, pl) == SegmentMatrix(rng, pl, Len(rng))

\* The 4x4 matrix of the first k elements.
SegmentMatrix4(rng, k) ==
    [i \in 1..4 |-> [j \in 1..4 |->
        IF (i <= 2) # (j <= 2) THEN R(0)
        ELSE IF i <= 2 THEN SegmentMatrix(rng, 0, k)[i][j]
        ELSE SegmentMatrix(rng, 1, k)[i - 2][j - 2]]]

\* c: where one turn takes the origin at momentum d.
OneTurnOffset(rng, d) ==
    Take4(Track(rng, <<R(0), R(0), R(0), R(0), d, R(0)>>, Len(rng)))

AMinusI(rng, pl) ==
    LET m == OneTurnMatrix(rng, pl)
    IN  <<<<RSub(m[1][1], R(1)), m[1][2]>>, <<m[2][1], RSub(m[2][2], R(1))>>>>

InvertibleRing(rng) ==
    AffineRing(rng) /\ \A pl \in 0..1 : Det2(AMinusI(rng, pl)) # R(0)

\* (A - I)^-1 (-c) for one plane, by the adjugate.
PlaneFixedPoint(m, c) ==
    LET det == Det2(m)
    IN  <<RDiv(RSub(RMul(m[1][2], c[2]), RMul(m[2][2], c[1])), det),
          RDiv(RSub(RMul(m[2][1], c[1]), RMul(m[1][1], c[2])), det)>>

FixedPoint(rng, d) ==
    LET c  == OneTurnOffset(rng, d)
        fx == PlaneFixedPoint(AMinusI(rng, 0), <<c[1], c[2]>>)
        fy == PlaneFixedPoint(AMinusI(rng, 1), <<c[3], c[4]>>)
    IN  <<fx[1], fx[2], fy[1], fy[2]>>

\* The 4-vector v after one turn at momentum d.
OneTurn(rng, v, d) ==
    Take4(Track(rng, <<v[1], v[2], v[3], v[4], d, R(0)>>, Len(rng)))

(***************************************************************************)
(* The rings and arguments the operations are called with.                 *)
(***************************************************************************)
\* One drift of length 2: the one-turn map is [[1, 2], [0, 1]] per plane.
DriftRing == <<Drift(R(2))>>

\* A drift of length 1 and a lens: per plane [[1, 1], [-k, 1 - k]].
CellRing(kx, ky, cx, cy, hx) == <<Drift(R(1)), Lens(kx, ky, cx, cy, hx)>>

\* A drift and a steering kick with no focusing: the one-turn map r -> A r + c
\* has A - I singular and no fixed point.
SteeredDriftRing == <<Drift(R(2)), Lens(R(0), R(0), R(3), R(0), R(0))>>

\* One drift of length 3/2.
LongDriftRing == <<Drift(Q(3, 2))>>

KinkRing == <<Kink>>

BlackBoxRing == <<BlackBox>>

OrbitRings ==
    { DriftRing, LongDriftRing, SteeredDriftRing, KinkRing, BlackBoxRing,
      CellRing(Q(4, 5), Q(4, 5), R(4), R(0), Q(2, 5)),
      CellRing(Q(4, 5), Q(16, 5), Q(4, 5), R(0), R(0)),
      CellRing(Q(4, 5), Q(16, 5), Q(4, 5), Q(16, 5), R(0)) }

Momenta == {R(0), R(10)}

RECURSIVE Ascending(_)
Ascending(S) ==
    IF S = {} THEN <<>>
    ELSE LET m == CHOOSE x \in S : \A y \in S : x <= y
         IN  <<m>> \o Ascending(S \ {m})

\* The refpts a caller may pass: None, or indices in ascending order.
RefptsOf(rng) ==
    {None} \cup { Ascending(S) : S \in (SUBSET (0..Len(rng))) \ {{}} }

\* The calls of find_orbit4: <<ring, dp, refpts>>.
OrbitCalls ==
    UNION { {rng} \X Momenta \X RefptsOf(rng) : rng \in OrbitRings \ {BlackBoxRing} }
    \cup ({BlackBoxRing} \X {R(0)} \X {None, <<0, 1>>})

\* Two cells of a drift and a lens.
TwoCellRing(kx, ky) ==
    <<Drift(R(1)), Lens(kx, ky, R(0), R(0), R(0)),
      Drift(R(1)), Lens(kx, ky, R(0), R(0), R(0))>>

M44Rings ==
    { DriftRing, LongDriftRing, SteeredDriftRing,
      CellRing(Q(4, 5), Q(4, 5), R(4), R(0), Q(2, 5)),
      TwoCellRing(Q(4, 5), Q(16, 5)) }

\* Two nonlinear kicks and two drifts: the closed orbit is the origin.
SextRing == <<Sext(R(1), R(1)), Drift(R(1)), Sext(R(1), R(1)), Drift(R(1))>>

\* The calls of find_m44: <<ring, dp, refpts, orbit4, XYStep>>.  A caller
\* that passes an orbit passes the ring's closed orbit.
M44Calls ==
    UNION { {rng} \X Momenta \X (RefptsOf(rng) \cup {<<>>})
                \X ({None} \cup {FixedPoint(rng, d) : d \in
                        IF InvertibleRing(rng) THEN {R(0)} ELSE {}})
                \X {R(XYDEFSTEP), R(2)} : rng \in M44Rings }
    \cup ({SextRing} \X {R(0)} \X {None, <<0, 2>>, <<1, 4>>} \X {Zero4} \X {R(2)})

\* Three cells of a drift and a lens.
ThreeCellRing(kx, ky) ==
    TwoCellRing(kx, ky) \o <<Drift(R(1)), Lens(kx, ky, R(0), R(0), R(0))>>

\* Two cells, the first with a steering kick in x: the closed orbit is not
\* the same at every point.
SteeredTwoCellRing ==
    <<Drift(R(1)), Lens(Q(4, 5), Q(16, 5), R(4), R(0), R(0)),
      Drift(R(1)), Lens(Q(4, 5), Q(16, 5), R(0), R(0), R(0))>>

\* One lens: the one-turn map [[1, 0], [-k, 1]] per plane.
LensRing == <<Lens(R(1), R(1), R(0), R(0), R(0))>>

\* The rings get_twiss is called with.  With a drift of length 1 and a lens
\* of strength k the cell has cos(mu) = 1 - k/2: 4/5, 3/5, 0, -3/5 for
\* k = 2/5, 4/5, 2, 16/5, the edge of stability at k = 4 and no stable
\* motion at k = 5.
TwissRings ==
    { DriftRing, LensRing,
      CellRing(Q(4, 5), Q(16, 5), R(4), R(0), R(0)),
      CellRing(R(2), Q(2, 5), R(0), R(0), R(0)),
      CellRing(R(4), Q(4, 5), R(0), R(0), R(0)),
      CellRing(R(5), Q(4, 5), R(0), R(0), R(0)),
      CellRing(Q(4, 5), R(5), R(0), R(0), R(0)),
      TwoCellRing(Q(16, 5), Q(4, 5)), SteeredTwoCellRing }

\* DDP = 1e-8, in the unit of the momentum deviation (1e-12).
DDP == 10000

\* One cell whose lens has a dispersive kick and other strengths off
\* momentum: cos(mu) is 3/5 in x and -3/5 in y on momentum, and the other
\* way round off momentum.
ChromCellRing ==
    <<Drift(R(1)), ChromLens(Q(4, 5), Q(16, 5), Q(16, 5), Q(4, 5), R(1))>>

\* One cell that is stable on momentum and has no stable motion in x off
\* momentum.
OffMomentumUnstableRing ==
    <<Drift(R(1)), ChromLens(Q(4, 5), Q(16, 5), R(5), Q(4, 5), R(1))>>

\* Two cells, the first with a dispersive kick in x.
DispersiveTwoCellRing ==
    <<Drift(R(1)), Lens(Q(4, 5), Q(16, 5), R(0), R(0), R(1)),
      Drift(R(1)), Lens(Q(4, 5), Q(16, 5), R(0), R(0), R(0))>>

ChromRings ==
    { ChromCellRing, OffMomentumUnstableRing, DispersiveTwoCellRing, DriftRing }

\* The calls of get_twiss: <<ring, dp, refpts, get_chrom, ddp>>.
TwissCalls ==
    UNION { {rng} \X {R(0)} \X (RefptsOf(rng) \ {None}) \X {FALSE} \X {R(DDP)}
            : rng \in TwissRings }
    \cup ({ThreeCellRing(Q(16, 5), Q(4, 5))} \X {R(0)}
              \X {<<6>>, <<0, 1, 2, 3, 4, 5, 6>>, <<1, 3, 5>>} \X {FALSE} \X {R(DDP)})
    \cup UNION { {rng} \X {R(0)} \X (RefptsOf(rng) \ {None})
                  \X BOOLEAN \X {R(DDP), R(2 * DDP)} : rng \in ChromRings }

\* The arguments betatron_phase_unwrap is called with directly: sequences
\* of up to MaxLen phases strictly between -pi/2 and pi/2.
MaxLen == 4

RawPhases == { R(-(Pi \div 2) + 1), R(-(Pi \div 4)), R(-1), R(0), R(1),
               R(Pi \div 4), R((Pi \div 2) - 1) }

UnwrapCalls == UNION { [1..n -> RawPhases] : n \in 0..MaxLen }

VARIABLES
    get_chrom, ddp, depth, frame, tcalls, prev,
    l_in, l_arg, l_out,
    heap,         \* the element objects, by identity
    e_self,       \* divide, insert: the element the method is called on
    frac,         \* divide: its argument
    keep_axis,    \* divide: its keyword
    insert_list,  \* insert: its argument
    element_list, \* divide, insert: what they returned
    elements,     \* the loaders: name -> element
    chunks,       \* the loaders: name -> list of elements
    op,           \* the operation the caller invoked
    pc,           \* where the call stands
    ring, dp,     \* the lattice and the momentum deviation of the call
    refpts,       \* the caller's refpts object
    requested,    \* refpts as they were when the call was made
    o_refpts,     \* find_orbit4: its refpts parameter
    r_in, change, itercount, keeplattice,     \* find_orbit4: its locals
    orbit4, orbit,                            \* find_orbit4: what it returned
    XYStep,       \* find_m44: its step parameter
    m_refpts, last_requested, np_refpts, m_keeplattice,   \* find_m44: its locals
    m44, mstack,                              \* find_m44: what it returned
    tw_refpts, nrefs,                         \* get_twiss: its locals
    ax, bx, mx, ay, by, my,                   \* get_twiss: alpha, beta, mu per plane
    beta0,        \* twiss22: the seed beta0 of each plane
    m_raw,        \* betatron_phase_unwrap: its argument, per call
    tune, twiss, chrom,                       \* get_twiss: what it returned
    calls,        \* the tracker calls of this call, in order
    fault         \* the exception that ended the call, or "none"

orbitVars == <<o_refpts, r_in, change, itercount, keeplattice, orbit4, orbit>>

m44Vars == <<XYStep, m_refpts, last_requested, np_refpts, m_keeplattice, m44, mstack>>

callVars == <<op, ring, dp, requested>>

twissVars == <<tw_refpts, nrefs, ax, bx, mx, ay, by, my, beta0, m_raw, tune, twiss, chrom>>

chromVars == <<get_chrom, ddp, depth, frame, tcalls, prev>>

\* The argument, second argument and result of an operation of at.load.
elemVars == <<heap, e_self, frac, keep_axis, insert_list, element_list,
              elements, chunks>>

loadVars == <<l_in, l_arg, l_out, elemVars>>

vars == <<callVars, refpts, pc, orbitVars, m44Vars, twissVars, chromVars, loadVars,
          calls, fault>>

(***************************************************************************)
(* find_orbit4                                                             *)
(***************************************************************************)
\* in_mat = r_in.reshape((6, 1)) + delta_matrix: four particles displaced
\* by STEP_SIZE along x, px, y, py, and the reference particle last.
InMatSix(r) == [p \in 1..6 |-> [i \in 1..6 |->
    IF p <= 4 /\ i = p THEN RAdd(r[i], R(STEP_SIZE)) ELSE r[i]]]

InMat(r) ==
    [p \in 1..5 |-> [i \in 1..6 |->
        IF p <= 4 /\ i = p THEN RAdd(r[i], R(STEP_SIZE)) ELSE r[i]]]

\* j4 = (out_mat[:4, :4] - ref_out) / STEP_SIZE, from the batch at the end
\* of the ring.
Jacobian(out) ==
    [i \in 1..4 |-> [p \in 1..4 |->
        RDiv(RSub(out[p][1][i], out[5][1][i]), R(STEP_SIZE))]]

\* b_over_a: the least-squares solution of (j4 - I) x = ref_out - r_in[:4].
NewtonCorrection(r, out) ==
    LET j4 == Jacobian(out)
        a  == [i \in 1..4 |-> [j \in 1..4 |->
                  IF i = j THEN RSub(j4[i][j], R(1)) ELSE j4[i][j]]]
        b  == VSub(Take4(out[5][1]), Take4(r))
    IN  Lstsq4(a, b)

NewtonUpdatePlus(r, x) ==
    <<RAdd(r[1], x[1]), RAdd(r[2], x[2]), RAdd(r[3], x[3]), RAdd(r[4], x[4]),
      r[5], r[6]>>

NewtonUpdateSix(r, x) ==
    <<RSub(r[1], x[1]), RSub(r[2], x[2]), RSub(r[3], x[3]), RSub(r[4], x[4]),
      RSub(r[5], x[1]), RSub(r[6], x[2])>>

\* r_next = r_in - numpy.append(b_over_a, numpy.zeros((2,)))
NewtonUpdate(r, x) ==
    <<RSub(r[1], x[1]), RSub(r[2], x[2]), RSub(r[3], x[3]), RSub(r[4], x[4]),
      r[5], r[6]>>

\* The test of the while loop; chg is the square of change.
LoopCondOneMore(chg, n) ==
    RGt(chg, R(CONVERGENCE * CONVERGENCE)) /\ n <= MAX_ITERATIONS

LoopCond(chg, n) ==
    RGt(chg, R(CONVERGENCE * CONVERGENCE)) /\ n < MAX_ITERATIONS

\* One entry of the tracker log.
CallRecord(keep, in_mat, pts) ==
    [keep |-> keep, nprobes |-> Len(in_mat), refpts |-> pts,
     dps |-> { in_mat[p][5] : p \in 1..Len(in_mat) },
     cts |-> { in_mat[p][6] : p \in 1..Len(in_mat) }]

FindOrbit4EnterKeeping(d, pts) ==
    /\ o_refpts' = pts
    /\ r_in' = <<R(0), R(0), R(0), R(0), d, R(0)>>
    /\ change' = InitialChange
    /\ itercount' = 0
    /\ keeplattice' = TRUE
    /\ orbit4' = None
    /\ orbit' = <<>>
    /\ pc' = "orbit_loop"

\* The state find_orbit4(rng, d, pts) starts its loop in.
FindOrbit4Enter(d, pts) ==
    /\ o_refpts' = pts
    /\ r_in' = <<R(0), R(0), R(0), R(0), d, R(0)>>
    /\ change' = InitialChange
    /\ itercount' = 0
    /\ keeplattice' = FALSE
    /\ orbit4' = None
    /\ orbit' = <<>>
    /\ pc' = "orbit_loop"

CallFindOrbit4 ==
    /\ pc = "idle"
    /\ \E c \in OrbitCalls :
        /\ op' = "find_orbit4"
        /\ ring' = c[1]
        /\ dp' = c[2]
        /\ refpts' = c[3]
        /\ requested' = c[3]
        /\ FindOrbit4Enter(c[2], c[3])
    /\ calls' = <<>>
    /\ fault' = "none"
    /\ UNCHANGED <<chromVars, loadVars, m44Vars, twissVars>>

\* One iteration of the while loop.
NewtonStep ==
    /\ pc = "orbit_loop"
    /\ LoopCond(change, itercount)
    /\ \E out_mat \in LatticePass(ring, InMat(r_in), None) :
        LET r_next == NewtonUpdate(r_in, NewtonCorrection(r_in, out_mat))
        IN  /\ change' = NormSq(VSub(r_next, r_in))
            /\ r_in' = r_next
    /\ itercount' = itercount + 1
    /\ keeplattice' = TRUE
    /\ calls' = Append(calls, CallRecord(keeplattice, InMat(r_in), None))
    /\ UNCHANGED <<chromVars, loadVars, callVars, refpts, pc, o_refpts, orbit4, orbit, m44Vars, twissVars,
                   fault>>

OrbitFaultOnCap(chg, n) ==
    IF RGt(chg, R(CONVERGENCE * CONVERGENCE)) THEN "ConvergenceError" ELSE "none"

\* What find_orbit4 raises once the loop is left: nothing, whether the loop
\* ended on the tolerance or on the iteration cap.
OrbitFault(chg, n) == "none"

\* return r_in[:4], all_points[:4, 0, :, 0]
FindOrbit4Return(r, all_points) ==
    [orbit4 |-> Take4(r),
     orbit  |-> [k \in 1..Len(all_points[1]) |-> Take4(all_points[1][k])]]

\* The loop is left: the final tracking call, and the return.
FinalPass ==
    /\ pc = "orbit_loop"
    /\ ~LoopCond(change, itercount)
    /\ \E all_points \in LatticePass(ring, <<r_in>>, o_refpts) :
        LET ret == FindOrbit4Return(r_in, all_points)
        IN  /\ orbit4' = ret.orbit4
            /\ orbit' = ret.orbit
    /\ calls' = Append(calls, CallRecord(keeplattice, <<r_in>>, o_refpts))
    /\ fault' = OrbitFault(change, itercount)
    /\ pc' = IF fault' # "none" THEN "error"
             ELSE IF op = "find_m44" THEN "m44_track"
             ELSE IF op = "get_twiss" THEN "m44_enter"
             ELSE "done"
    \* find_m44, back from its own find_orbit4: keeplattice = True
    /\ m_keeplattice' = IF op = "find_m44" THEN TRUE ELSE m_keeplattice
    \* get_twiss goes on to find_m44(ring, dp, refpts, orbit4=orbit4)
    /\ m_refpts' = IF op = "get_twiss" THEN tw_refpts ELSE m_refpts
    /\ XYStep' = IF op = "get_twiss" THEN R(XYDEFSTEP) ELSE XYStep
    /\ UNCHANGED <<chromVars, loadVars, callVars, refpts, o_refpts, r_in, change, itercount, keeplattice,
                   last_requested, np_refpts, m44, mstack, twissVars>>

(***************************************************************************)
(* find_m44                                                                *)
(***************************************************************************)
Last(q) == q[Len(q)]

Front(q) == SubSeq(q, 1, Len(q) - 1)

\* lattice.uint32_refpts(refpts, n_elements): the indices as an array of
\* unsigned integers.  The indices of this model are in 0..n_elements.
Uint32Refpts(pts, n) == [k \in 1..Len(pts) |-> pts[k]]

M44InMatFullStep(o4, d, step) ==
    LET orbit6 == <<o4[1], o4[2], o4[3], o4[4], d, R(0)>>
    IN  [p \in 1..8 |-> [i \in 1..6 |->
            IF p <= 4 /\ i = p THEN RAdd(orbit6[i], step)
            ELSE IF p > 4 /\ i = p - 4 THEN RSub(orbit6[i], step)
            ELSE orbit6[i]]]

\* in_mat = orbit6 + dmat: four particles half a step above the orbit along
\* x, px, y, py, then four half a step below.
M44InMat(o4, d, step) ==
    LET orbit6 == <<o4[1], o4[2], o4[3], o4[4], d, R(0)>>
        half   == RMul(Q(1, 2), step)
    IN  [p \in 1..8 |-> [i \in 1..6 |->
            IF p <= 4 /\ i = p THEN RAdd(orbit6[i], half)
            ELSE IF p > 4 /\ i = p - 4 THEN RSub(orbit6[i], half)
            ELSE orbit6[i]]]

FullStackTransposed(out, step) ==
    [k \in 1..Len(out[1]) |-> [i \in 1..4 |-> [j \in 1..4 |->
        RDiv(RSub(out[i][k][j], out[i + 4][k][j]), step)]]]

\* mstack = (tmat3[:, :4, :] - tmat3[:, 4:8, :]) / XYStep, one 4x4 matrix
\* per reference point of the tracking call.
FullStack(out, step) ==
    [k \in 1..Len(out[1]) |-> [i \in 1..4 |-> [j \in 1..4 |->
        RDiv(RSub(out[j][k][i], out[j + 4][k][i]), step)]]]

M44ReturnUntrimmed(stack, last_req) ==
    [m44 |-> Last(stack), mstack |-> stack]

\* m44 = mstack[:, :, -1]; without last_requested the last matrix is
\* removed from mstack.
M44Return(stack, last_req) ==
    [m44 |-> Last(stack),
     mstack |-> IF last_req THEN stack ELSE Front(stack)]

\* find_m44 is entered: lines 126 to 138.  Appending the end of the ring
\* to refpts changes the caller's list.
M44Enter ==
    /\ pc = "m44_enter"
    /\ IF m_refpts = None
       THEN /\ m_refpts' = <<Len(ring)>>
            /\ last_requested' = FALSE
            /\ refpts' = refpts
            /\ fault' = "none"
       ELSE IF m_refpts = <<>>
       THEN /\ fault' = "IndexError"
            /\ UNCHANGED <<m_refpts, last_requested, refpts>>
       ELSE IF Last(m_refpts) # Len(ring)
       THEN /\ m_refpts' = Append(m_refpts, Len(ring))
            /\ refpts' = IF op = "find_m44" THEN m_refpts' ELSE refpts
            /\ last_requested' = FALSE
            /\ fault' = "none"
       ELSE /\ last_requested' = TRUE
            /\ fault' = "none"
            /\ UNCHANGED <<m_refpts, refpts>>
    /\ IF fault' # "none"
       THEN /\ pc' = "error"
            /\ UNCHANGED <<np_refpts, m_keeplattice, orbitVars>>
       ELSE /\ np_refpts' = Uint32Refpts(m_refpts', Len(ring))
            /\ IF orbit4 = None
               THEN /\ FindOrbit4Enter(dp, None)
                    /\ UNCHANGED m_keeplattice
               ELSE /\ pc' = "m44_track"
                    /\ m_keeplattice' = FALSE
                    /\ UNCHANGED orbitVars
    /\ UNCHANGED <<chromVars, loadVars, callVars, XYStep, m44, mstack, twissVars, calls>>

\* The tracking call of find_m44 and its return: lines 139 to 159.
M44Track ==
    /\ pc = "m44_track"
    /\ \E out_mat \in LatticePass(ring, M44InMat(orbit4, dp, XYStep), np_refpts) :
        LET ret == M44Return(FullStack(out_mat, XYStep), last_requested)
        IN  /\ m44' = ret.m44
            /\ mstack' = ret.mstack
    /\ calls' = Append(calls,
                   CallRecord(m_keeplattice, M44InMat(orbit4, dp, XYStep), np_refpts))
    /\ pc' = IF op = "get_twiss" THEN "twiss_x" ELSE "done"
    /\ UNCHANGED <<chromVars, loadVars, callVars, refpts, orbitVars, XYStep, m_refpts, last_requested,
                   np_refpts, m_keeplattice, twissVars, fault>>

(***************************************************************************)
(* betatron_phase_unwrap and get_twiss                                     *)
(***************************************************************************)
\* numpy.cumsum(jumps)[i]: the number of negative steps up to element i.
RECURSIVE CumJumps(_, _)
CumJumps(m, i) ==
    IF i <= 1 THEN 0
    ELSE CumJumps(m, i - 1)
         + (IF RLt(RSub(m[i], m[i - 1]), R(0)) THEN 1 ELSE 0)

UnwrapAtJumpOnly(m) ==
    [i \in 1..Len(m) |->
        RAdd(m[i], R((CumJumps(m, i) - CumJumps(m, i - 1)) * Pi))]

UnwrapFromFirst(m) ==
    [i \in 1..Len(m) |->
        RAdd(m[i], R((CumJumps(m, i) + (IF RLt(m[1], R(0)) THEN 1 ELSE 0)) * Pi))]

\* m + numpy.cumsum(jumps) * numpy.pi
Unwrap(m) ==
    [i \in 1..Len(m) |-> RAdd(m[i], R(CumJumps(m, i) * Pi))]

\* -mat[0, 1] * mat[1, 0] - (mat[0, 0] - mat[1, 1]) ** 2 / 4
Radicand(mat) ==
    RSub(RMul(RNeg(mat[1][2]), mat[2][1]),
         RDiv(RSq(RSub(mat[1][1], mat[2][2])), R(4)))

SinMuEndUnsigned(mat) == RSqrt(Radicand(mat))

\* sin_mu_end = numpy.sign(mat[0, 1]) * math.sqrt(...)
SinMuEnd(mat) == RMul(R(RSign(mat[1][2])), RSqrt(Radicand(mat)))

\* twiss22(mat, ms): math.sqrt raises ValueError on a negative argument;
\* a division by zero gives inf or NaN and raises nothing.
Twiss22(mat, ms) ==
    LET sin_mu_end == SinMuEnd(mat)
        alpha0 == RDiv(RDiv(RSub(mat[1][1], mat[2][2]), R(2)), sin_mu_end)
        b0     == RDiv(mat[1][2], sin_mu_end)
        u(k)   == RSub(RMul(ms[k][1][1], b0), RMul(ms[k][1][2], alpha0))
        w(k)   == RSub(RMul(ms[k][2][1], b0), RMul(ms[k][2][2], alpha0))
        raw    == [k \in 1..Len(ms) |-> Arctan(RDiv(ms[k][1][2], u(k)))]
    IN  IF RLt(Radicand(mat), R(0))
        THEN [fault |-> "ValueError: math domain error"]
        ELSE [fault |-> "none",
              beta0 |-> b0,
              beta  |-> [k \in 1..Len(ms) |->
                           RDiv(RAdd(RSq(u(k)), RSq(ms[k][1][2])), b0)],
              alpha |-> [k \in 1..Len(ms) |->
                           RDiv(RNeg(RAdd(RMul(u(k), w(k)),
                                          RMul(ms[k][1][2], ms[k][2][2]))), b0)],
              raw   |-> raw,
              mu    |-> Unwrap(raw)]

\* lattice.get_s_pos(ring, refpts): the length of the first k elements.
RECURSIVE SPos(_, _)
SPos(rng, k) == IF k = 0 THEN R(0) ELSE RAdd(SPos(rng, k - 1), rng[k].L)

TuneOverPi(mux, muy) ==
    <<RDiv(Last(mux), R(Pi)), RDiv(Last(muy), R(Pi))>>

\* tune = numpy.array((mx[-1], my[-1])) / (2 * numpy.pi)
TuneOf(mux, muy) ==
    <<RDiv(Last(mux), R(2 * Pi)), RDiv(Last(muy), R(2 * Pi))>>

TwissRecordsFromEnd(n, pts, orb, stack, alx, bex, mux, aly, bey, muy) ==
    LET off == Len(pts) - n
    IN  [k \in 1..n |->
            [idx |-> pts[k],
             s_pos |-> SPos(ring, pts[k]),
             closed_orbit |-> orb[k + off],
             dispersion |-> <<NaN, NaN, NaN, NaN>>,
             alpha |-> <<alx[k + off], aly[k + off]>>,
             beta |-> <<bex[k + off], bey[k + off]>>,
             mu |-> <<mux[k + off], muy[k + off]>>,
             m44 |-> stack[k + off]]]

\* The records of lines 209 to 217: the first n entries of every array.
TwissRecords(n, pts, orb, stack, alx, bex, mux, aly, bey, muy) ==
    [k \in 1..n |->
        [idx |-> pts[k],
         s_pos |-> SPos(ring, pts[k]),
         closed_orbit |-> orb[k],
         dispersion |-> <<NaN, NaN, NaN, NaN>>,
         alpha |-> <<alx[k], aly[k]>>,
         beta |-> <<bex[k], bey[k]>>,
         mu |-> <<mux[k], muy[k]>>,
         m44 |-> stack[k]]]

CallerRefptsAppended(arg, pts) == pts

\* The caller's refpts after lines 197 to 200: uint32_refpts and
\* numpy.append return new arrays, and the argument is as it was.
CallerRefptsAfter(arg, pts) == arg

\* get_twiss up to its call of find_orbit4: lines 195 to 202.
CallGetTwiss ==
    /\ pc = "idle"
    /\ \E c \in TwissCalls :
        LET arr == Uint32Refpts(c[3], Len(c[1]))
            pts == IF Last(arr) # Len(c[1]) THEN Append(arr, Len(c[1])) ELSE arr
        IN  /\ op' = "get_twiss"
            /\ ring' = c[1]
            /\ dp' = c[2]
            /\ refpts' = CallerRefptsAfter(c[3], pts)
            /\ requested' = c[3]
            /\ get_chrom' = c[4]
            /\ ddp' = c[5]
            /\ tcalls' = <<[dp |-> c[2], refpts |-> c[3], get_chrom |-> c[4]]>>
            /\ nrefs' = Len(arr)
            /\ tw_refpts' = pts
            /\ FindOrbit4Enter(c[2], pts)
    /\ chrom' = None
    /\ depth' = 1
    /\ frame' = <<>>
    /\ prev' = <<>>
    /\ calls' = <<>>
    /\ fault' = "none"
    /\ UNCHANGED <<loadVars, m44Vars, ax, bx, mx, ay, by, my, beta0, m_raw, tune, twiss>>

\* ax, bx, mx = twiss22(m44[:2, :2], mstack[:2, :2, :])
TwissX ==
    /\ pc = "twiss_x"
    /\ LET t == Twiss22(Block(m44, 0), [k \in 1..Len(mstack) |-> Block(mstack[k], 0)])
       IN  IF t.fault # "none"
           THEN /\ fault' = t.fault
                /\ pc' = "error"
                /\ UNCHANGED <<ax, bx, mx, beta0, m_raw>>
           ELSE /\ ax' = t.alpha /\ bx' = t.beta /\ mx' = t.mu
                /\ beta0' = <<t.beta0>>
                /\ m_raw' = <<t.raw>>
                /\ pc' = "twiss_y"
                /\ UNCHANGED fault
    /\ UNCHANGED <<chromVars, loadVars, callVars, refpts, orbitVars, m44Vars, tw_refpts, nrefs,
                   ay, by, my, tune, twiss, chrom, calls>>

\* ay, by, my = twiss22(m44[2:, 2:], mstack[2:, 2:, :])
TwissY ==
    /\ pc = "twiss_y"
    /\ LET t == Twiss22(Block(m44, 1), [k \in 1..Len(mstack) |-> Block(mstack[k], 1)])
       IN  IF t.fault # "none"
           THEN /\ fault' = t.fault
                /\ pc' = "error"
                /\ UNCHANGED <<ay, by, my, beta0, m_raw>>
           ELSE /\ ay' = t.alpha /\ by' = t.beta /\ my' = t.mu
                /\ beta0' = Append(beta0, t.beta0)
                /\ m_raw' = Append(m_raw, t.raw)
                /\ pc' = "twiss_out"
                /\ UNCHANGED fault
    /\ UNCHANGED <<chromVars, loadVars, callVars, refpts, orbitVars, m44Vars, tw_refpts, nrefs,
                   ax, bx, mx, tune, twiss, chrom, calls>>

\* The tune, the records and the return: lines 208 to 217 and 225.
TwissOut ==
    /\ pc = "twiss_out"
    /\ tune' = TuneOf(mx, my)
    /\ twiss' = TwissRecords(nrefs, tw_refpts, orbit, mstack, ax, bx, mx, ay, by, my)
    /\ pc' = IF get_chrom THEN "chrom_call"
             ELSE IF depth = 2 THEN "chrom_return"
             ELSE "done"
    /\ UNCHANGED <<loadVars, callVars, refpts, orbitVars, m44Vars, tw_refpts, nrefs, chromVars,
                   ax, bx, mx, ay, by, my, beta0, m_raw, chrom, calls, fault>>

\* The local variables of a call of get_twiss that is waiting for the call
\* it made.
Frame ==
    [dp |-> dp, requested |-> requested, refpts |-> refpts, ddp |-> ddp,
     tw_refpts |-> tw_refpts, nrefs |-> nrefs, orbit4 |-> orbit4, orbit |-> orbit,
     m44 |-> m44, mstack |-> mstack, ax |-> ax, bx |-> bx, mx |-> mx,
     ay |-> ay, by |-> by, my |-> my, beta0 |-> beta0, m_raw |-> m_raw,
     tune |-> tune, twiss |-> twiss]

\* get_twiss(ring, dp + ddp, refpts[:nrefs]): the call of line 221, up to
\* the find_orbit4 of the call made.  get_chrom and ddp have their defaults.
ChromCall ==
    /\ pc = "chrom_call"
    /\ LET pts_b == SubSeq(tw_refpts, 1, nrefs)
           dp_b  == RAdd(dp, ddp)
           arr   == Uint32Refpts(pts_b, Len(ring))
           pts   == IF Last(arr) # Len(ring) THEN Append(arr, Len(ring)) ELSE arr
       IN  /\ frame' = <<Frame>>
           /\ depth' = depth + 1
           /\ dp' = dp_b
           /\ requested' = pts_b
           /\ refpts' = pts_b
           /\ get_chrom' = FALSE
           /\ ddp' = R(DDP)
           /\ tcalls' = Append(tcalls, [dp |-> dp_b, refpts |-> pts_b,
                                        get_chrom |-> FALSE])
           /\ nrefs' = Len(arr)
           /\ tw_refpts' = pts
           /\ FindOrbit4Enter(dp_b, pts)
    /\ chrom' = None
    /\ UNCHANGED <<loadVars, op, ring, m44Vars, ax, bx, mx, ay, by, my, beta0, m_raw,
                   tune, twiss, calls, fault, prev>>

DispersionOverOne(twissb, twissa, k, d) ==
    [i \in 1..4 |-> RSub(twissb[k].closed_orbit[i], twissa[k].closed_orbit[i])]

DispersionXY(twissb, twissa, k, d) ==
    <<RDiv(RSub(twissb[k].closed_orbit[1], twissa[k].closed_orbit[1]), d),
      RDiv(RSub(twissb[k].closed_orbit[3], twissa[k].closed_orbit[3]), d)>>

\* twiss['dispersion'] = (twissb['closed_orbit'] - twiss['closed_orbit']) / ddp
Dispersion(twissb, twissa, k, d) ==
    [i \in 1..4 |->
        RDiv(RSub(twissb[k].closed_orbit[i], twissa[k].closed_orbit[i]), d)]

ChromTimesDdp(tuneb, tunea, d) ==
    [i \in 1..2 |-> RMul(RSub(tuneb[i], tunea[i]), d)]

\* chrom = (tuneb - tune) / ddp
Chrom(tuneb, tunea, d) ==
    [i \in 1..2 |-> RDiv(RSub(tuneb[i], tunea[i]), d)]

\* The call made has returned twissb and tuneb: lines 221 to 225.
ChromReturn ==
    /\ pc = "chrom_return"
    /\ LET f == frame[1]
       IN  /\ chrom' = Chrom(tune, f.tune, f.ddp)
           /\ twiss' = [k \in 1..Len(f.twiss) |->
                          [f.twiss[k] EXCEPT
                              !.dispersion = Dispersion(twiss, f.twiss, k, f.ddp)]]
           /\ dp' = f.dp /\ requested' = f.requested /\ refpts' = f.refpts
           /\ ddp' = f.ddp /\ get_chrom' = TRUE
           /\ tw_refpts' = f.tw_refpts /\ nrefs' = f.nrefs
           /\ orbit4' = f.orbit4 /\ orbit' = f.orbit
           /\ m44' = f.m44 /\ mstack' = f.mstack
           /\ ax' = f.ax /\ bx' = f.bx /\ mx' = f.mx
           /\ ay' = f.ay /\ by' = f.by /\ my' = f.my
           /\ beta0' = f.beta0 /\ m_raw' = f.m_raw
           /\ tune' = f.tune
    /\ depth' = depth - 1
    /\ frame' = <<>>
    /\ pc' = "done"
    /\ UNCHANGED <<loadVars, op, ring, o_refpts, r_in, change, itercount, keeplattice,
                   XYStep, m_refpts, last_requested, np_refpts, m_keeplattice,
                   tcalls, calls, fault, prev>>

\* get_twiss has returned, and its caller calls it again with the same
\* ring, dp, refpts object, get_chrom and ddp: lines 195 to 202 again.
CallGetTwissAgain ==
    /\ pc = "done" /\ op = "get_twiss" /\ prev = <<>>
    /\ prev' = <<[ring |-> ring, refpts |-> requested,
                  twiss |-> twiss, tune |-> tune, chrom |-> chrom]>>
    /\ LET arr == Uint32Refpts(refpts, Len(ring))
           pts == IF Last(arr) # Len(ring) THEN Append(arr, Len(ring)) ELSE arr
       IN  /\ refpts' = CallerRefptsAfter(refpts, pts)
           /\ requested' = refpts
           /\ tcalls' = <<[dp |-> dp, refpts |-> refpts, get_chrom |-> get_chrom]>>
           /\ nrefs' = Len(arr)
           /\ tw_refpts' = pts
           /\ FindOrbit4Enter(dp, pts)
    /\ chrom' = None
    /\ depth' = 1
    /\ frame' = <<>>
    /\ calls' = <<>>
    /\ UNCHANGED <<loadVars, op, ring, dp, get_chrom, ddp, fault, m44Vars,
                   ax, bx, mx, ay, by, my, beta0, m_raw, tune, twiss>>

\* betatron_phase_unwrap called on its own.
CallUnwrap ==
    /\ pc = "idle"
    /\ \E m \in UnwrapCalls :
        /\ op' = "betatron_phase_unwrap"
        /\ m_raw' = <<m>>
    /\ pc' = "unwrap"
    /\ UNCHANGED <<chromVars, loadVars, ring, dp, requested, refpts, orbitVars, m44Vars, tw_refpts, nrefs,
                   ax, bx, mx, ay, by, my, beta0, tune, twiss, chrom, calls, fault>>

UnwrapReturn ==
    /\ pc = "unwrap"
    /\ mx' = Unwrap(m_raw[1])
    /\ pc' = "done"
    /\ UNCHANGED <<chromVars, loadVars, callVars, refpts, orbitVars, m44Vars, tw_refpts, nrefs,
                   ax, bx, ay, by, my, beta0, m_raw, tune, twiss, chrom, calls, fault>>

(***************************************************************************)
(* at.load: strings are sequences of characters.                           *)
(***************************************************************************)
Min(a, b) == IF a < b THEN a ELSE b

\* string[a:b] and string[a:], for indices from 0 that are not negative.
Slice(str, a, b) == SubSeq(str, Min(a, Len(str)) + 1, Min(b, Len(str)))

SliceFrom(str, a) == SubSeq(str, Min(a, Len(str)) + 1, Len(str))

\* The position from 1 of the first c in str at or after position i, and 0
\* when there is none.
RECURSIVE IndexOf(_, _, _)
IndexOf(str, c, i) ==
    IF i > Len(str) THEN 0
    ELSE IF str[i] = c THEN i
    ELSE IndexOf(str, c, i + 1)

\* re.finditer('\(.*?\)', string): from each opening parenthesis to the
\* first closing one after it, left to right, without overlap.  A match is
\* <<start, end>> as Python counts: from 0, the end not included.
RECURSIVE FindIter(_, _)
FindIter(str, from) ==
    LET i == IndexOf(str, "(", from)
        j == IF i = 0 THEN 0 ELSE IndexOf(str, ")", i + 1)
    IN  IF j = 0 THEN <<>>
        ELSE <<<<i - 1, j>>>> \o FindIter(str, j + 1)

\* match.group()
Group(str, mt) == Slice(str, mt[1], mt[2])

PLACEHOLDER == <<"p", "l", "a", "c", "e", "h", "o", "l", "d", "e", "r">>

\* The for loop over the matches: each puts the placeholder between the
\* positions the match has in the string given, in the string as it is by
\* then.  The first n matches are done.
RECURSIVE Substituted(_, _, _)
Substituted(str, matches, n) ==
    IF n = 0 THEN str
    ELSE LET sub == Substituted(str, matches, n - 1)
         IN  Slice(sub, 0, matches[n][1]) \o PLACEHOLDER
                 \o SliceFrom(sub, matches[n][2])

\* str.split(delimiter) for a delimiter of one character.
RECURSIVE Split(_, _)
Split(str, d) ==
    LET i == IndexOf(str, d, 1)
    IN  IF i = 0 THEN <<str>>
        ELSE <<SubSeq(str, 1, i - 1)>> \o Split(SubSeq(str, i + 1, Len(str)), d)

StartsWith(str, pat) ==
    Len(str) >= Len(pat) /\ SubSeq(str, 1, Len(pat)) = pat

\* pat in str
RECURSIVE Contains(_, _)
Contains(str, pat) ==
    IF Len(str) < Len(pat) THEN FALSE
    ELSE StartsWith(str, pat) \/ Contains(Tail(str), pat)

\* str.replace(pat, new)
RECURSIVE Replace(_, _, _)
Replace(str, pat, new) ==
    IF Len(str) < Len(pat) \/ Len(str) = 0 THEN str
    ELSE IF StartsWith(str, pat)
         THEN new \o Replace(SubSeq(str, Len(pat) + 1, Len(str)), pat, new)
    ELSE <<Head(str)>> \o Replace(Tail(str), pat, new)

\* The for loop over the parts, the first n of them done: the matches left
\* in the deque, the parts replaced, and the IndexError of popleft on an
\* empty deque.
RECURSIVE ReplacedParts(_, _, _, _)
ReplacedParts(str, matches, parts, n) ==
    IF n = 0 THEN [left |-> matches, out |-> <<>>, fault |-> "none"]
    ELSE LET b == ReplacedParts(str, matches, parts, n - 1)
         IN  IF b.fault # "none" THEN b
             ELSE IF ~Contains(parts[n], PLACEHOLDER)
             THEN [b EXCEPT !.out = Append(b.out, parts[n])]
             ELSE IF b.left = <<>> THEN [b EXCEPT !.fault = "IndexError"]
             ELSE [left |-> Tail(b.left),
                   out |-> Append(b.out, Replace(parts[n], PLACEHOLDER,
                                                 Group(str, Head(b.left)))),
                   fault |-> "none"]

\* split_ignoring_parentheses(string, delimiter), the same in tracy.py and
\* in elegant.py.
SplitIgnoringParentheses(str, d) ==
    LET matches == FindIter(str, 1)
        parts   == Split(Substituted(str, matches, Len(matches)), d)
        b       == ReplacedParts(str, matches, parts, Len(parts))
    IN  IF b.fault # "none" THEN [fault |-> b.fault, out |-> <<>>]
        ELSE IF b.left # <<>> THEN [fault |-> "AssertionError", out |-> <<>>]
        ELSE [fault |-> "none", out |-> b.out]

\* The strings split_ignoring_parentheses is called with: up to MaxStr
\* characters, and the delimiter ",".
MaxStr == 6

SplitChars == {"x", ",", "(", ")"}

SplitCalls == UNION { [1..n -> SplitChars] : n \in 0..MaxStr }

CallSplit ==
    /\ pc = "idle"
    /\ op' = "split_ignoring_parentheses"
    /\ \E str \in SplitCalls : l_in' = str
    /\ l_arg' = ","
    /\ pc' = "split"
    /\ UNCHANGED <<ring, dp, requested, refpts, orbitVars, m44Vars, twissVars,
                   chromVars, elemVars, l_out, calls, fault>>

SplitReturn ==
    /\ pc = "split"
    /\ LET ret == SplitIgnoringParentheses(l_in, l_arg)
       IN  /\ fault' = ret.fault
           /\ l_out' = ret.out
           /\ pc' = IF ret.fault = "none" THEN "done" ELSE "error"
    /\ UNCHANGED <<callVars, refpts, orbitVars, m44Vars, twissVars, chromVars, elemVars,
                   l_in, l_arg, calls>>

\* char.lower(), for the characters of this model.
Lower(c) == IF c = "A" THEN "a" ELSE c

\* char.isspace()
IsSpace(c) == c \in {" ", "\n"}

TracyKeepAlways(in_comment, c) == ~IsSpace(c)

\* The character is added to stripped_contents: it is no brace, and
\* "not in_comment and not char.isspace()".
TracyKeep(in_comment, c) == ~in_comment /\ ~IsSpace(c)

\* The for loop of parse_lines of tracy.py over the first n characters of
\* contents.lower(): in_comment and stripped_contents.
RECURSIVE TracyStrip(_, _)
TracyStrip(str, n) ==
    IF n = 0 THEN [in_comment |-> FALSE, stripped |-> <<>>]
    ELSE LET b == TracyStrip(str, n - 1)
             c == Lower(str[n])
         IN  IF c = "{" THEN [b EXCEPT !.in_comment = TRUE]
             ELSE IF c = "}" THEN [b EXCEPT !.in_comment = FALSE]
             ELSE IF TracyKeep(b.in_comment, c)
                  THEN [b EXCEPT !.stripped = Append(b.stripped, c)]
             ELSE b

\* parse_lines(contents) of tracy.py
TracyParseLines(str) == Split(TracyStrip(str, Len(str)).stripped, ";")

\* The texts parse_lines of tracy.py is called with: up to MaxText
\* characters.
MaxText == 5

TracyChars == {"A", " ", "{", "}", ";"}

TracyCalls == UNION { [1..n -> TracyChars] : n \in 0..MaxText }

CallTracyParseLines ==
    /\ pc = "idle"
    /\ op' = "tracy.parse_lines"
    /\ \E str \in TracyCalls : l_in' = str
    /\ pc' = "tracy_lines"
    /\ UNCHANGED <<ring, dp, requested, refpts, orbitVars, m44Vars, twissVars,
                   chromVars, elemVars, l_arg, l_out, calls, fault>>

TracyParseLinesReturn ==
    /\ pc = "tracy_lines"
    /\ l_out' = TracyParseLines(l_in)
    /\ pc' = "done"
    /\ UNCHANGED <<callVars, refpts, orbitVars, m44Vars, twissVars, chromVars, elemVars,
                   l_in, l_arg, calls, fault>>

\* contents.splitlines(), for texts whose only line end is "\n".
SplitLines(str) ==
    LET p == Split(str, "\n")
    IN  IF p[Len(p)] = <<>> THEN SubSeq(p, 1, Len(p) - 1) ELSE p

\* l.strip()
RECURSIVE Strip(_)
Strip(str) ==
    IF Len(str) = 0 THEN str
    ELSE IF IsSpace(str[1]) THEN Strip(Tail(str))
    ELSE IF IsSpace(str[Len(str)]) THEN Strip(SubSeq(str, 1, Len(str) - 1))
    ELSE str

LowerAll(str) == [i \in 1..Len(str) |-> Lower(str[i])]

\* lines = [l.lower().strip() for l in contents.splitlines()]
ElegantLines(str) ==
    [n \in 1..Len(SplitLines(str)) |-> Strip(LowerAll(SplitLines(str)[n]))]

\* The for loop of parse_lines of elegant.py over the first n lines:
\* current_line and parsed_lines.
RECURSIVE ElegantLoop(_, _)
ElegantLoop(lines, n) ==
    IF n = 0 THEN [current_line |-> <<>>, parsed_lines |-> <<>>]
    ELSE LET b == ElegantLoop(lines, n - 1)
             l == lines[n]
         IN  IF Len(l) = 0 \/ l[1] = "!" THEN b
             ELSE IF l[Len(l)] = "&"
                  THEN [b EXCEPT !.current_line = b.current_line \o SubSeq(l, 1, Len(l) - 1)]
             ELSE [current_line |-> <<>>,
                   parsed_lines |-> Append(b.parsed_lines, b.current_line \o l)]

ElegantParseLinesFlushed(str) ==
    LET b == ElegantLoop(ElegantLines(str), Len(ElegantLines(str)))
    IN  IF b.current_line = <<>> THEN b.parsed_lines
        ELSE Append(b.parsed_lines, b.current_line)

\* parse_lines(contents) of elegant.py
ElegantParseLines(str) ==
    ElegantLoop(ElegantLines(str), Len(ElegantLines(str))).parsed_lines

ElegantChars == {"A", " ", "\n", "!", "&"}

\* The texts parse_lines of elegant.py is called with: up to MaxText
\* characters.
ElegantCalls == UNION { [1..n -> ElegantChars] : n \in 0..MaxText }

CallElegantParseLines ==
    /\ pc = "idle"
    /\ op' = "elegant.parse_lines"
    /\ \E str \in ElegantCalls : l_in' = str
    /\ pc' = "elegant_lines"
    /\ UNCHANGED <<ring, dp, requested, refpts, orbitVars, m44Vars, twissVars,
                   chromVars, elemVars, l_arg, l_out, calls, fault>>

ElegantParseLinesReturn ==
    /\ pc = "elegant_lines"
    /\ l_out' = ElegantParseLines(l_in)
    /\ pc' = "done"
    /\ UNCHANGED <<callVars, refpts, orbitVars, m44Vars, twissVars, chromVars, elemVars,
                   l_in, l_arg, calls, fault>>

(***************************************************************************)
(* elements.py: Element, LongElement.divide, Drift.insert                  *)
(***************************************************************************)
\* An element object: its class and its instance attributes (vars(self)),
\* the numeric ones; an array attribute stands as one number.
Element(cls, attrs) == [cls |-> cls, attrs |-> attrs]

entrance_fields == <<"T1", "R1", "EntranceAngle", "FringeInt1",
                     "FringeBendEntrance", "FringeQuadEntrance">>

exit_fields == <<"T2", "R2", "ExitAngle", "FringeInt2",
                 "FringeBendExit", "FringeQuadExit">>

\* fields[first:] as a set.
FieldsFrom(fields, first) == { fields[i] : i \in (first + 1)..Len(fields) }

Restrict(f, S) == [k \in S |-> f[k]]

Without(f, S) == [k \in (DOMAIN f) \ S |-> f[k]]

\* setattr of every item of g on an object with attributes f.
SetAttrs(f, g) ==
    [k \in (DOMAIN f) \cup (DOMAIN g) |-> IF k \in DOMAIN g THEN g[k] ELSE f[k]]

RECURSIVE RSum(_)
RSum(q) == IF Len(q) = 0 THEN R(0) ELSE RAdd(Head(q), RSum(Tail(q)))

\* part(fr) of divide: a copy of el of length fr * el.Length.
Part(el, fr, total) ==
    Element(el.cls,
        [k \in DOMAIN el.attrs |->
            IF k = "Length" THEN RMul(fr, el.attrs["Length"])
            ELSE IF k = "BendingAngle"
                 THEN RMul(RDiv(fr, total), el.attrs["BendingAngle"])
            ELSE el.attrs[k]])

\* first = 0 if keep_axis else 2
FirstField(keep) == IF keep THEN 0 ELSE 2

\* fin and fout of divide: the attributes popped from the copy.
Fin(slf, keep) ==
    Restrict(slf.attrs, (DOMAIN slf.attrs) \cap FieldsFrom(entrance_fields, FirstField(keep)))

Fout(slf, keep) ==
    Restrict(slf.attrs, (DOMAIN slf.attrs) \cap FieldsFrom(exit_fields, FirstField(keep)))

\* What divide raises: element_list[0] and element_list[-1] of no slice.
DivideFault(slf, fr, keep) ==
    IF Len(fr) = 0 /\ (DOMAIN Fin(slf, keep)) \cup (DOMAIN Fout(slf, keep)) # {}
    THEN "IndexError" ELSE "none"

\* self.divide(frac, keep_axis): the slices, as new objects.
Divide(slf, fr, keep) ==
    LET el    == Element(slf.cls,
                     Without(slf.attrs, (DOMAIN Fin(slf, keep)) \cup (DOMAIN Fout(slf, keep))))
        parts == [n \in 1..Len(fr) |-> Part(el, fr[n], RSum(fr))]
    IN  [n \in 1..Len(fr) |->
            Element(parts[n].cls,
                SetAttrs(SetAttrs(parts[n].attrs,
                                  IF n = 1 THEN Fin(slf, keep) ELSE <<>>),
                         IF n = Len(fr) THEN Fout(slf, keep) ELSE <<>>))]

\* The value an attribute of the elements of this model has.
AttrValue(k) ==
    CASE k = "Length" -> R(2)
      [] k = "BendingAngle" -> Q(1, 2)
      [] k = "EntranceAngle" -> Q(1, 10)
      [] k = "ExitAngle" -> Q(1, 5)
      [] k \in {"T1", "R1"} -> R(11)
      [] k \in {"T2", "R2"} -> R(12)
      [] OTHER -> R(1)

WithAttrs(cls, S) == Element(cls, [k \in S |-> AttrValue(k)])

\* The elements divide is called on: drifts and dipoles of length 2, with
\* any of T1, R1, T2, R2 and with or without fringe fields.
DivideSelves ==
    { WithAttrs(c[1], c[2] \cup axis \cup fringe) :
        c \in { <<"Drift", {"Length"}>>,
                <<"Dipole", {"Length", "BendingAngle", "EntranceAngle", "ExitAngle"}>> },
        axis \in SUBSET {"T1", "R1", "T2", "R2"},
        fringe \in { {}, {"FringeQuadEntrance", "FringeQuadExit"} } }

\* divide is called with up to MaxSlices fractions.
MaxSlices == 3

Fracs == UNION { [1..n -> {Q(1, 4), Q(1, 2)}] : n \in 0..MaxSlices }

Ids(from, n) == [k \in 1..n |-> from + k]

CallDivide ==
    /\ pc = "idle"
    /\ op' = "divide"
    /\ \E slf \in DivideSelves, fr \in Fracs, keep \in BOOLEAN :
        /\ heap' = <<slf>>
        /\ frac' = fr
        /\ keep_axis' = keep
    /\ e_self' = 1
    /\ pc' = "divide"
    /\ UNCHANGED <<ring, dp, requested, refpts, orbitVars, m44Vars, twissVars,
                   chromVars, l_in, l_arg, l_out, insert_list, element_list,
                   elements, chunks, calls, fault>>

DivideReturn ==
    /\ pc = "divide"
    /\ fault' = DivideFault(heap[e_self], frac, keep_axis)
    /\ IF fault' # "none"
       THEN /\ pc' = "error"
            /\ UNCHANGED <<heap, element_list>>
       ELSE /\ heap' = heap \o Divide(heap[e_self], frac, keep_axis)
            /\ element_list' = Ids(Len(heap), Len(frac))
            /\ pc' = "done"
    /\ UNCHANGED <<callVars, refpts, orbitVars, m44Vars, twissVars, chromVars,
                   l_in, l_arg, l_out, e_self, frac, keep_axis, insert_list,
                   elements, chunks, calls>>

\* A reference to the object heap[id]; None is no object.
Ref(id) == <<id>>

\* lg of insert: half the length of each inserted element, as a fraction
\* of the length of the drift.
InsertLg(h, slf, il) ==
    [i \in 1..Len(il) |->
        RDiv(RMul(Q(1, 2), IF il[i][2] = None THEN R(0)
                           ELSE h[il[i][2][1]].attrs["Length"]),
             slf.attrs["Length"])]

DrFracOfPoints(h, slf, il) ==
    [i \in 1..(Len(il) + 1) |->
        RSub(IF i <= Len(il) THEN il[i][1] ELSE R(1),
             IF i = 1 THEN R(0) ELSE il[i - 1][1])]

\* drfrac = numpy.hstack((fr-lg, 1.0)) - numpy.hstack((0.0, fr+lg))
DrFrac(h, slf, il) ==
    LET lg == InsertLg(h, slf, il)
    IN  [i \in 1..(Len(il) + 1) |->
            RSub(IF i <= Len(il) THEN RSub(il[i][1], lg[i]) ELSE R(1),
                 IF i = 1 THEN R(0) ELSE RAdd(il[i - 1][1], lg[i - 1]))]

\* long_elems = (drfrac != 0.0)
LongElems(drfrac) == { i \in 1..Len(drfrac) : drfrac[i] # R(0) }

\* drfrac[long_elems]
RECURSIVE Masked(_, _)
Masked(drfrac, n) ==
    IF n = 0 THEN <<>>
    ELSE Masked(drfrac, n - 1)
             \o (IF drfrac[n] # R(0) THEN <<drfrac[n]>> ELSE <<>>)

\* line, without its None entries, up to slot n of drifts and of elements:
\* the drift pieces are the objects from base + 1 on.
RECURSIVE InsertLine(_, _, _, _)
InsertLine(drfrac, il, base, n) ==
    IF n = 0 THEN <<>>
    ELSE InsertLine(drfrac, il, base, n - 1)
             \o (IF drfrac[n] # R(0)
                 THEN <<base + Cardinality(LongElems(drfrac) \cap (1..n))>>
                 ELSE <<>>)
             \o (IF n <= Len(il) /\ il[n][2] # None THEN <<il[n][2][1]>> ELSE <<>>)

\* What insert raises: zip(*insert_list) of no item, or what divide raises.
InsertFault(h, slf, il) ==
    IF Len(il) = 0 THEN "ValueError"
    ELSE DivideFault(slf, Masked(DrFrac(h, slf, il), Len(il) + 1), FALSE)

DriftOfLength(L) == Element("Drift", [k \in {"Length"} |-> L])

\* The elements insert puts in a drift: two markers and a quadrupole of
\* length 2/5.
InsertElements ==
    <<Element("Marker", [k \in {"Length"} |-> R(0)]),
      Element("Marker", [k \in {"Length"} |-> R(0)]),
      Element("Quadrupole", [k \in {"Length", "K"} |-> IF k = "K" THEN R(0) ELSE Q(2, 5)])>>

\* The drifts insert is called on.
InsertSelves ==
    { DriftOfLength(R(2)), DriftOfLength(R(0)),
      Element("Drift", [k \in {"Length", "T1"} |-> AttrValue(k)]) }

\* insert is called with up to MaxInsert items.
MaxInsert == 2

InsertLists ==
    UNION { [1..n -> {R(0), Q(1, 4), Q(1, 2), R(1)}
                       \X ({None} \cup {Ref(id) : id \in 2..4})]
            : n \in 0..MaxInsert }

CallInsert ==
    /\ pc = "idle"
    /\ op' = "insert"
    /\ \E slf \in InsertSelves, il \in InsertLists :
        /\ heap' = <<slf>> \o InsertElements
        /\ insert_list' = il
    /\ prev' = <<heap'>>
    /\ e_self' = 1
    /\ pc' = "insert"
    /\ UNCHANGED <<ring, dp, requested, refpts, orbitVars, m44Vars, twissVars,
                   get_chrom, ddp, depth, frame, tcalls,
                   l_in, l_arg, l_out, frac, keep_axis, element_list,
                   elements, chunks, calls, fault>>

InsertReturn ==
    /\ pc = "insert"
    /\ fault' = InsertFault(heap, heap[e_self], insert_list)
    /\ IF fault' # "none"
       THEN /\ pc' = "error"
            /\ UNCHANGED <<heap, element_list>>
       ELSE LET drfrac == DrFrac(heap, heap[e_self], insert_list)
            IN  /\ heap' = heap \o Divide(heap[e_self],
                                          Masked(drfrac, Len(drfrac)), FALSE)
                /\ element_list' = InsertLine(drfrac, insert_list, Len(heap),
                                              Len(drfrac))
                /\ pc' = "done"
    /\ UNCHANGED <<callVars, refpts, orbitVars, m44Vars, twissVars, chromVars,
                   l_in, l_arg, l_out, e_self, frac, keep_axis, insert_list,
                   elements, chunks, calls>>

(***************************************************************************)
(* parse_chunk of tracy.py and of elegant.py                               *)
(***************************************************************************)
SYMMETRY == <<"s", "y", "m", "m", "e", "t", "r", "y">>

LINE == <<"l", "i", "n", "e">>

INV == <<"i", "n", "v">>

VAL_DQE == <<"d", ",", "q", ",", "e">>

VAL_INV_A == <<"i", "n", "v", "(", "a", ")">>

VAL_INV_B == <<"i", "n", "v", "(", "b", ")">>

VAL_Q_INV_A == <<"q", ",", "i", "n", "v", "(", "a", ")">>

VAL_2A == <<"2", "*", "a">>

VAL_A_E == <<"a", ",", "e">>

VAL_INV_A_INV_A == <<"i", "n", "v", "(", "a", ")", ",", "i", "n", "v", "(", "a", ")">>

VAL_INVA == <<"i", "n", "v", "a">>

VAL_SYM == <<"s", "y", "m", "m", "e", "t", "r", "y", "=", "2", ",", "d">>

VAL_LINE_DQ == <<"l", "i", "n", "e", "=", "(", "d", ",", " ", "q", ")">>

VAL_LINE_MINUS_A == <<"l", "i", "n", "e", "=", "(", "-", "a", ",", "e", ")">>

\* The position from 1 of the last c in str, and 0 when there is none.
RECURSIVE LastIndexOf(_, _, _)
LastIndexOf(str, c, i) ==
    IF i = 0 THEN 0
    ELSE IF str[i] = c THEN i
    ELSE LastIndexOf(str, c, i - 1)

\* re.match(head + '\((.*)\)', part): the groups of the match, and <<>> for
\* no match.  The group is the text from the parenthesis after head to the
\* last ")" of part.
MatchGroup(head, part) ==
    LET open == head \o <<"(">>
        j    == LastIndexOf(part, ")", Len(part))
    IN  IF StartsWith(part, open) /\ j > Len(open)
        THEN <<SubSeq(part, Len(open) + 1, j - 1)>>
        ELSE <<>>

InvertedDipoleAsIs(el) == el

\* inverted_dipole: a copy of el with EntranceAngle and ExitAngle swapped.
InvertedDipole(el) ==
    Element(el.cls,
        [k \in DOMAIN el.attrs |->
            IF k = "EntranceAngle" THEN el.attrs["ExitAngle"]
            ELSE IF k = "ExitAngle" THEN el.attrs["EntranceAngle"]
            ELSE el.attrs[k]])

Reversed(q) == [i \in 1..Len(q) |-> q[Len(q) + 1 - i]]

\* The loop over reversed(chunks[chunk_to_invert]), its first n elements
\* done: inverted_chunk and the objects there are.
RECURSIVE InvertedChunk(_, _, _)
InvertedChunk(h, src, n) ==
    IF n = 0 THEN [heap |-> h, chunk |-> <<>>]
    ELSE LET b  == InvertedChunk(h, src, n - 1)
             el == Reversed(src)[n]
         IN  IF b.heap[el].cls = "Dipole"
             THEN [heap |-> Append(b.heap, InvertedDipole(b.heap[el])),
                   chunk |-> Append(b.chunk, Len(b.heap) + 1)]
             ELSE [b EXCEPT !.chunk = Append(@, el)]

\* int(num) * chunks[chunk_name]
RECURSIVE Repeated(_, _)
Repeated(n, q) == IF n = 0 THEN <<>> ELSE q \o Repeated(n - 1, q)

\* int(num), for the numbers of this model.
IntOf(num) ==
    IF num = <<"2">> THEN 2 ELSE IF num = <<"3">> THEN 3 ELSE -1

\* The loop over line_parts.split(",") of elegant.py, its first n items
\* done.
RECURSIVE LineParts(_, _, _, _)
LineParts(ps, elems, chks, n) ==
    IF n = 0 THEN [fault |-> "none", chunk |-> <<>>]
    ELSE LET b == LineParts(ps, elems, chks, n - 1)
             q == Strip(ps[n])
         IN  IF b.fault # "none" THEN b
             ELSE IF StartsWith(q, <<"-">>)
             THEN IF Tail(q) \in DOMAIN chks
                  THEN [b EXCEPT !.chunk = @ \o Reversed(chks[Tail(q)])]
                  ELSE [b EXCEPT !.fault = "KeyError"]
             ELSE IF q \in DOMAIN elems
             THEN [b EXCEPT !.chunk = Append(@, elems[q])]
             ELSE IF q \in DOMAIN chks
             THEN [b EXCEPT !.chunk = @ \o chks[q]]
             ELSE [b EXCEPT !.fault = "Exception"]

\* The loop over parts of parse_chunk, its first n parts done: the chunk,
\* the objects there are, and what was raised.
RECURSIVE ChunkParts(_, _, _, _, _, _)
ChunkParts(loader, parts, elems, chks, h, n) ==
    IF n = 0 THEN [fault |-> "none", chunk |-> <<>>, heap |-> h]
    ELSE LET b    == ChunkParts(loader, parts, elems, chks, h, n - 1)
             part == parts[n]
         IN  IF b.fault # "none" THEN b
             ELSE IF Contains(part, SYMMETRY) THEN b
             ELSE IF loader = "elegant" /\ Contains(part, LINE)
             THEN LET g == MatchGroup(LINE \o <<"=">>, part)
                  IN  IF g = <<>> THEN [b EXCEPT !.fault = "AttributeError"]
                      ELSE LET r == LineParts(Split(g[1], ","), elems, chks,
                                              Len(Split(g[1], ",")))
                           IN  [b EXCEPT !.fault = r.fault,
                                         !.chunk = @ \o r.chunk]
             ELSE IF Contains(part, INV)
             THEN LET g == MatchGroup(INV, part)
                  IN  IF g = <<>> THEN [b EXCEPT !.fault = "AttributeError"]
                      ELSE IF g[1] \notin DOMAIN chks THEN [b EXCEPT !.fault = "KeyError"]
                      ELSE LET r == InvertedChunk(b.heap, chks[g[1]], Len(chks[g[1]]))
                           IN  [b EXCEPT !.heap = r.heap, !.chunk = @ \o r.chunk]
             ELSE IF Contains(part, <<"*">>)
             THEN LET sp == Split(part, "*")
                  IN  IF Len(sp) # 2 \/ IntOf(sp[1]) < 0
                      THEN [b EXCEPT !.fault = "ValueError"]
                      ELSE IF sp[2] \notin DOMAIN chks
                      THEN [b EXCEPT !.fault = "KeyError"]
                      ELSE [b EXCEPT !.chunk = @ \o Repeated(IntOf(sp[1]), chks[sp[2]])]
             ELSE IF part \in DOMAIN elems
             THEN [b EXCEPT !.chunk = Append(@, elems[part])]
             ELSE IF part \in DOMAIN chks
             THEN [b EXCEPT !.chunk = @ \o chks[part]]
             ELSE [b EXCEPT !.fault = "Exception"]

\* parse_chunk(value, elements, chunks)
ParseChunk(loader, value, elems, chks, h) ==
    LET sp == SplitIgnoringParentheses(value, ",")
    IN  IF sp.fault # "none" THEN [fault |-> sp.fault, chunk |-> <<>>, heap |-> h]
        ELSE ChunkParts(loader, sp.out, elems, chks, h, Len(sp.out))

\* The elements of the lattice files of this model: two dipoles and a
\* quadrupole, by name.
LoaderHeap ==
    <<Element("Dipole", [k \in {"Length", "BendingAngle", "EntranceAngle", "ExitAngle"}
                            |-> AttrValue(k)]),
      Element("Dipole", [k \in {"Length", "BendingAngle", "EntranceAngle", "ExitAngle"}
                            |-> IF k = "ExitAngle" THEN R(0) ELSE AttrValue(k)]),
      Element("Quadrupole", [k \in {"Length", "K"} |-> R(1)])>>

LoaderElements ==
    [k \in {<<"d">>, <<"e">>, <<"q">>} |->
        IF k = <<"d">> THEN 1 ELSE IF k = <<"e">> THEN 2 ELSE 3]

\* The lattice files of this model define up to MaxChunks chunks, named in
\* this order.
MaxChunks == 3

ChunkNames == <<<<"a">>, <<"b">>, <<"c">>, <<"f">>, <<"g">>>>

\* The values of the chunk definitions.
ChunkValues(loader) ==
    { VAL_DQE, VAL_INV_A, VAL_INV_B, VAL_Q_INV_A, VAL_2A, VAL_A_E,
      VAL_INV_A_INV_A, VAL_INVA, VAL_SYM }
    \cup (IF loader = "elegant" THEN { VAL_LINE_DQ, VAL_LINE_MINUS_A } ELSE {})

\* expand_tracy, expand_elegant: the elements of the file are defined, and
\* no chunk yet.
CallExpand ==
    /\ pc = "idle"
    /\ \E loader \in {"tracy", "elegant"} : op' = loader
    /\ heap' = LoaderHeap
    /\ elements' = LoaderElements
    /\ chunks' = <<>>
    /\ l_in' = <<>>
    /\ pc' = "expand_lines"
    /\ UNCHANGED <<ring, dp, requested, refpts, orbitVars, m44Vars, twissVars,
                   chromVars, l_arg, l_out, e_self, frac, keep_axis, insert_list,
                   element_list, calls, fault>>

\* One line that defines a chunk: chunks[key] = parse_chunk(value, elements,
\* chunks).  l_in is the lines so far, l_out the chunk returned.
ParseChunkLine ==
    /\ pc = "expand_lines"
    /\ Len(l_in) < MaxChunks
    /\ \E value \in ChunkValues(op) :
        LET key == ChunkNames[Len(l_in) + 1]
            ret == ParseChunk(op, value, elements, chunks, heap)
        IN  /\ l_in' = Append(l_in, <<key, value>>)
            /\ fault' = ret.fault
            /\ IF ret.fault # "none"
               THEN /\ pc' = "error"
                    /\ UNCHANGED <<heap, chunks, l_out>>
               ELSE /\ heap' = ret.heap
                    /\ l_out' = ret.chunk
                    /\ chunks' = [k \in (DOMAIN chunks) \cup {key} |->
                                     IF k = key THEN ret.chunk ELSE chunks[k]]
                    /\ pc' = "expand_lines"
    /\ UNCHANGED <<callVars, refpts, orbitVars, m44Vars, twissVars, chromVars,
                   l_arg, e_self, frac, keep_axis, insert_list, element_list,
                   elements, calls>>

\* The last line is done.
ExpandReturn ==
    /\ pc = "expand_lines"
    /\ pc' = "done"
    /\ UNCHANGED <<callVars, refpts, orbitVars, m44Vars, twissVars, chromVars,
                   loadVars, calls, fault>>

Init ==
    /\ op = "none"
    /\ pc = "idle"
    /\ ring = DriftRing
    /\ dp = R(0)
    /\ refpts = None
    /\ requested = None
    /\ o_refpts = None
    /\ r_in = <<R(0), R(0), R(0), R(0), R(0), R(0)>>
    /\ change = InitialChange
    /\ itercount = 0
    /\ keeplattice = FALSE
    /\ orbit4 = None
    /\ orbit = <<>>
    /\ XYStep = R(XYDEFSTEP)
    /\ m_refpts = None
    /\ last_requested = FALSE
    /\ np_refpts = <<>>
    /\ m_keeplattice = FALSE
    /\ m44 = <<>>
    /\ mstack = <<>>
    /\ tw_refpts = <<>>
    /\ nrefs = 0
    /\ ax = <<>> /\ bx = <<>> /\ mx = <<>>
    /\ ay = <<>> /\ by = <<>> /\ my = <<>>
    /\ beta0 = <<>>
    /\ m_raw = <<>>
    /\ tune = <<>>
    /\ twiss = <<>>
    /\ chrom = None
    /\ calls = <<>>
    /\ fault = "none"
    /\ get_chrom = FALSE
    /\ ddp = R(DDP)
    /\ depth = 0
    /\ frame = <<>>
    /\ tcalls = <<>>
    /\ prev = <<>>
    /\ l_in = <<>>
    /\ l_arg = <<>>
    /\ l_out = <<>>
    /\ heap = <<>>
    /\ e_self = 0
    /\ frac = <<>>
    /\ keep_axis = FALSE
    /\ insert_list = <<>>
    /\ element_list = <<>>
    /\ elements = <<>>
    /\ chunks = <<>>

CallFindM44 ==
    /\ pc = "idle"
    /\ \E c \in M44Calls :
        /\ op' = "find_m44"
        /\ ring' = c[1]
        /\ dp' = c[2]
        /\ refpts' = c[3]
        /\ requested' = c[3]
        /\ m_refpts' = c[3]
        /\ orbit4' = c[4]
        /\ XYStep' = c[5]
    /\ pc' = "m44_enter"
    /\ calls' = <<>>
    /\ fault' = "none"
    /\ UNCHANGED <<chromVars, loadVars, o_refpts, r_in, change, itercount, keeplattice, orbit,
                   last_requested, np_refpts, m_keeplattice, m44, mstack, twissVars>>

\* find_m44 has returned, and its caller calls it again with the same ring,
\* dp, refpts object, orbit4 and XYStep.
CallFindM44Again ==
    /\ pc = "done" /\ op = "find_m44" /\ prev = <<>>
    /\ prev' = <<[ring |-> ring, refpts |-> requested, nstack |-> Len(mstack)]>>
    /\ requested' = refpts
    /\ m_refpts' = refpts
    /\ orbit4' = IF Len(calls) > 1 THEN None ELSE orbit4
    /\ pc' = "m44_enter"
    /\ calls' = <<>>
    /\ UNCHANGED <<get_chrom, ddp, depth, frame, tcalls, loadVars, op, ring, dp, refpts,
                   o_refpts, r_in, change, itercount, keeplattice, orbit,
                   XYStep, last_requested, np_refpts, m_keeplattice, m44, mstack,
                   twissVars, fault>>

NextOrbit == CallFindOrbit4 \/ NewtonStep \/ FinalPass

NextM44 == CallFindM44 \/ M44Enter \/ NewtonStep \/ FinalPass \/ M44Track

SpecM44 == Init /\ [][NextM44]_vars

\* find_m44, called a second time when it has returned.
NextM44Twice == NextM44 \/ CallFindM44Again

SpecM44Twice == Init /\ [][NextM44Twice]_vars

SpecOrbit == Init /\ [][NextOrbit]_vars

\* find_orbit4 and find_m44, each called by itself.
NextPhysics == NextOrbit \/ CallFindM44 \/ M44Enter \/ M44Track

SpecPhysics == Init /\ [][NextPhysics]_vars

NextTwiss ==
    \/ CallGetTwiss \/ NewtonStep \/ FinalPass \/ M44Enter \/ M44Track
    \/ TwissX \/ TwissY \/ TwissOut \/ ChromCall \/ ChromReturn
    \/ CallUnwrap \/ UnwrapReturn

SpecTwiss == Init /\ [][NextTwiss]_vars

NextSplit == CallSplit \/ SplitReturn

SpecSplit == Init /\ [][NextSplit]_vars

NextTracy == CallTracyParseLines \/ TracyParseLinesReturn

SpecTracy == Init /\ [][NextTracy]_vars

NextElegant == CallElegantParseLines \/ ElegantParseLinesReturn

SpecElegant == Init /\ [][NextElegant]_vars

NextDivide == CallDivide \/ DivideReturn

SpecDivide == Init /\ [][NextDivide]_vars

NextInsert == CallInsert \/ InsertReturn

SpecInsert == Init /\ [][NextInsert]_vars

NextExpand == CallExpand \/ ParseChunkLine \/ ExpandReturn

SpecExpand == Init /\ [][NextExpand]_vars

\* get_twiss alone.
NextChrom ==
    \/ CallGetTwiss \/ NewtonStep \/ FinalPass \/ M44Enter \/ M44Track
    \/ TwissX \/ TwissY \/ TwissOut \/ ChromCall \/ ChromReturn

SpecChrom == Init /\ [][NextChrom]_vars

\* get_twiss, called a second time when it has returned.
NextTwice == NextChrom \/ CallGetTwissAgain

SpecTwice == Init /\ [][NextTwice]_vars

\* find_orbit4, find_m44 and get_twiss, each called by its caller.
NextCalls == NextPhysics \/ NextChrom

SpecCalls == Init /\ [][NextCalls]_vars

OnTolerance == ~RGt(change, R(CONVERGENCE * CONVERGENCE))

(***************************************************************************)
(* C1 as stated: whenever find_orbit4's loop stops because the correction  *)
(* norm met the tolerance, one turn of tracking takes the returned orbit   *)
(* to itself.  (Tracker with a definite one-turn map.)                     *)
(***************************************************************************)
C1_FixedPointWheneverOnTolerance ==
    (op = "find_orbit4" /\ pc = "done" /\ ~IsBlackBox(ring) /\ OnTolerance)
        => OneTurn(ring, orbit4, dp) = orbit4

(***************************************************************************)
(* C1 amended: for a tracker whose one-turn map is affine, r -> A r + c    *)
(* with A - I invertible, find_orbit4's loop stops on the tolerance, the   *)
(* returned orbit is exactly (A - I)^-1 (-c), and one turn of tracking     *)
(* takes it to itself.                                                     *)
(***************************************************************************)
C1_FixedPointAffine ==
    (op = "find_orbit4" /\ pc = "done" /\ InvertibleRing(ring))
        => /\ OnTolerance
           /\ orbit4 = FixedPoint(ring, dp)
           /\ OneTurn(ring, orbit4, dp) = orbit4

\* An invertible affine ring off momentum, two iterations, an orbit off 0.
C1_Witness ==
    /\ op = "find_orbit4" /\ pc = "done" /\ InvertibleRing(ring)
    /\ itercount = 2 /\ orbit4 # Zero4 /\ dp # R(0)

(***************************************************************************)
(* C3: find_orbit4's loop runs at least 1 and at most MAX_ITERATIONS       *)
(* iterations, every iteration but the last had a correction norm above    *)
(* CONVERGENCE, no iteration follows one whose correction norm is not      *)
(* above it, and the loop is followed by exactly one tracking call and     *)
(* the return.                                                             *)
(***************************************************************************)
C3_Counts ==
    /\ itercount <= MAX_ITERATIONS
    /\ pc = "orbit_loop" => Len(calls) = itercount
    /\ (op = "find_orbit4" /\ pc = "done") =>
          /\ itercount >= 1
          /\ OnTolerance \/ itercount = MAX_ITERATIONS
          /\ Len(calls) = itercount + 1
          /\ calls[Len(calls)].nprobes = 1

C3_Steps ==
    /\ (pc = "orbit_loop" /\ itercount >= 1 /\ OnTolerance)
          => (pc' = "done" /\ itercount' = itercount)
    /\ (pc = "orbit_loop" /\ itercount = MAX_ITERATIONS)
          => (pc' = "done" /\ itercount' = itercount)
    /\ (pc = "orbit_loop" /\ itercount < MAX_ITERATIONS
            /\ (itercount = 0 \/ ~OnTolerance))
          => (pc' = "orbit_loop" /\ itercount' = itercount + 1)

C3_Termination == []C3_Counts /\ [][C3_Steps]_vars

\* The black box answered ten times with a correction above the tolerance
\* and then with one within it.
C3_Witness ==
    /\ op = "find_orbit4" /\ pc = "done" /\ IsBlackBox(ring)
    /\ itercount = 11 /\ OnTolerance /\ change # R(0)

(***************************************************************************)
(* C4: when all MAX_ITERATIONS iterations had a correction norm above      *)
(* CONVERGENCE, find_orbit4 raises nothing and returns the iterate of the  *)
(* last update, with the orbit at every requested point: the result has    *)
(* the shape of a converged call's.                                        *)
(***************************************************************************)
NPoints(pts) == IF pts = None THEN 1 ELSE Len(pts)

C4_SilentNonConvergence ==
    (op = "find_orbit4" /\ pc \in {"done", "error"}
        /\ itercount = MAX_ITERATIONS /\ ~OnTolerance)
        => /\ pc = "done" /\ fault = "none"
           /\ orbit4 = Take4(r_in)
           /\ Len(orbit) = NPoints(requested)

C4_Witness ==
    /\ op = "find_orbit4" /\ pc = "done" /\ ring = KinkRing
    /\ itercount = MAX_ITERATIONS /\ ~OnTolerance /\ requested = <<0, 1>>

(***************************************************************************)
(* C5: the tracking call of find_m44 has the end of the ring as its last   *)
(* reference point; the one-turn matrix returned is the ring's matrix at   *)
(* that point; the stack returned holds one matrix per reference point the *)
(* caller asked for, in that order, each the ring's matrix up to that      *)
(* point, and is empty when refpts is None.                                *)
(***************************************************************************)
C5_RefptTrimming ==
    (op = "find_m44" /\ pc = "done") =>
        /\ Last(Last(calls).refpts) = Len(ring)
        /\ Last(calls).nprobes = 8
        /\ AffineRing(ring) => m44 = SegmentMatrix4(ring, Len(ring))
        /\ Len(mstack) = (IF requested = None THEN 0 ELSE Len(requested))
        /\ AffineRing(ring) =>
              \A k \in 1..Len(mstack) : mstack[k] = SegmentMatrix4(ring, requested[k])

\* The caller asked for points 0 and 2 of a ring of 4 elements: the matrix
\* of the end of the ring is tracked and trimmed.
C5_Witness ==
    /\ op = "find_m44" /\ pc = "done" /\ Len(ring) = 4
    /\ requested = <<0, 2>> /\ Len(mstack) = 2
    /\ Len(Last(calls).refpts) = 3 /\ m44 # mstack[2]

(***************************************************************************)
(* The planes of a ring, from the matrices of its elements.                *)
(***************************************************************************)
\* The one-turn block of plane pl has |trace| >= 2 or M01 = 0.
UnstablePlane(rng, pl) ==
    LET m  == OneTurnMatrix(rng, pl)
        tr == RAdd(m[1][1], m[2][2])
    IN  RLe(R(2), tr) \/ RLe(tr, R(-2)) \/ m[1][2] = R(0)

\* The one-turn block of plane pl has a positive radicand and M01 # 0.
StablePlane(rng, pl) ==
    LET m == OneTurnMatrix(rng, pl)
    IN  /\ RGt(RSub(RMul(RNeg(m[1][2]), m[2][1]),
                    RSq(RDiv(RSub(m[1][1], m[2][2]), R(2)))), R(0))
        /\ m[1][2] # R(0)

StableRing(rng) == AffineRing(rng) /\ \A pl \in 0..1 : StablePlane(rng, pl)

\* The one-turn block of plane pl seen from point p: S M S^-1.
TurnMatrixAt(rng, pl, p) ==
    LET sm  == SegmentMatrix(rng, pl, p)
        det == Det2(sm)
        inv == <<<<RDiv(sm[2][2], det), RDiv(RNeg(sm[1][2]), det)>>,
                 <<RDiv(RNeg(sm[2][1]), det), RDiv(sm[1][1], det)>>>>
    IN  MatMul2(sm, MatMul2(OneTurnMatrix(rng, pl), inv))

\* sin(mu) of a stable plane, from the trace: its sign is that of M01.
SinMuOf(rng, pl) ==
    LET m == OneTurnMatrix(rng, pl)
    IN  RMul(R(RSign(m[1][2])),
             RSqrt(RSub(R(1), RSq(RDiv(RAdd(m[1][1], m[2][2]), R(2))))))

\* The periodic beta and alpha of a stable plane at point p.
PeriodicBeta(rng, pl, p) == RDiv(TurnMatrixAt(rng, pl, p)[1][2], SinMuOf(rng, pl))

PeriodicAlpha(rng, pl, p) ==
    LET m == TurnMatrixAt(rng, pl, p)
    IN  RDiv(RSub(m[1][1], m[2][2]), RMul(R(2), SinMuOf(rng, pl)))

\* The phase advance from point 0 to point p, up to a multiple of pi.
PhaseModPi(rng, pl, p) ==
    LET sm == SegmentMatrix(rng, pl, p)
    IN  Arctan(RDiv(sm[1][2],
                    RSub(RMul(sm[1][1], PeriodicBeta(rng, pl, 0)),
                         RMul(sm[1][2], PeriodicAlpha(rng, pl, 0)))))

NonDecreasing(m) == \A i \in 2..Len(m) : RLe(m[i - 1], m[i])

NoNaN(m) == \A i \in 1..Len(m) : ~IsNaN(m[i])

(***************************************************************************)
(* C2: if the one-turn block of a plane has |trace| >= 2 or M01 = 0,       *)
(* get_twiss fails with an error and returns no result, the pure drift     *)
(* with |trace| = 2 included.                                              *)
(***************************************************************************)
C2_InstabilityFault ==
    (op = "get_twiss" /\ pc \in {"done", "error"}
        /\ \E pl \in 0..1 : UnstablePlane(ring, pl))
        => pc = "error" /\ fault # "none" /\ twiss = <<>>

\* get_twiss has returned for the pure drift: every beta is NaN or
\* infinite, and nothing was raised.
C2_Witness ==
    /\ op = "get_twiss" /\ pc = "done" /\ ring = DriftRing /\ fault = "none"
    /\ Len(twiss) = 2
    /\ \A k \in 1..2 : \A i \in 1..2 : ~IsFinite(twiss[k].beta[i])
    /\ IsNaN(tune[1])

(***************************************************************************)
(* C6: the phases betatron_phase_unwrap returns for arctangent values are  *)
(* non-decreasing along the reference points, in both planes of get_twiss  *)
(* and for every sequence of raw values.                                   *)
(***************************************************************************)
C6_MonotonicPhase ==
    /\ (op = "betatron_phase_unwrap" /\ pc = "done")
          => (Len(mx) = Len(m_raw[1]) /\ NonDecreasing(mx))
    /\ (op = "get_twiss" /\ pc = "done" /\ NoNaN(m_raw[1]) /\ NoNaN(m_raw[2]))
          => /\ NonDecreasing(mx) /\ NonDecreasing(my)
             /\ \A k \in 1..Len(twiss) :
                    twiss[k].mu = <<Unwrap(m_raw[1])[k], Unwrap(m_raw[2])[k]>>
             /\ \A k \in 2..Len(twiss) : \A i \in 1..2 :
                    RLe(twiss[k - 1].mu[i], twiss[k].mu[i])

\* get_twiss with four points of which the raw phase in x falls twice.
C6_Witness ==
    /\ op = "get_twiss" /\ pc = "done" /\ Len(twiss) >= 4
    /\ NoNaN(m_raw[1])
    /\ CumJumps(m_raw[1], Len(m_raw[1])) >= 2
    /\ RGt(Last(twiss).mu[1], R(Pi))

(***************************************************************************)
(* C7: get_twiss returns one record per reference point the caller asked   *)
(* for, in that order; the record has the index asked for and the closed   *)
(* orbit, the matrix, alpha, beta and mu of that point; the end of the     *)
(* ring, when get_twiss added it, has no record.                           *)
(***************************************************************************)
C7_OpticsRecords ==
    (op = "get_twiss" /\ pc = "done") =>
        /\ Len(twiss) = Len(requested)
        /\ \A k \in 1..Len(twiss) :
            LET p == requested[k]
                r == twiss[k]
            IN  /\ r.idx = p
                /\ tw_refpts[k] = p
                /\ r.m44 = SegmentMatrix4(ring, p)
                /\ r.closed_orbit
                     = Take4(Track(ring, <<orbit4[1], orbit4[2], orbit4[3],
                                           orbit4[4], dp, R(0)>>, p))
                /\ r.alpha = <<ax[k], ay[k]>>
                /\ r.beta = <<bx[k], by[k]>>
                /\ r.mu = <<mx[k], my[k]>>
                /\ \A pl \in 0..1 : StablePlane(ring, pl) =>
                    /\ r.beta[pl + 1] = PeriodicBeta(ring, pl, p)
                    /\ r.alpha[pl + 1] = PeriodicAlpha(ring, pl, p)
                    /\ \E j \in 0..Len(tw_refpts) :
                         r.mu[pl + 1] = RAdd(PhaseModPi(ring, pl, p), R(j * Pi))

\* Points 0 and 1 of a ring of four elements with a steering kick: the end
\* is tracked and has no record, and the two records differ.
C7_Witness ==
    /\ op = "get_twiss" /\ pc = "done" /\ Len(ring) = 4 /\ StableRing(ring)
    /\ requested = <<0, 1>> /\ Len(tw_refpts) = 3 /\ Len(twiss) = 2
    /\ twiss[1].closed_orbit # twiss[2].closed_orbit
    /\ twiss[1].closed_orbit # Zero4
    /\ twiss[2].alpha # <<ax[3], ay[3]>>
    /\ twiss[1].mu # twiss[2].mu

(***************************************************************************)
(* C8: in both planes the tune of get_twiss is the unwrapped phase at the  *)
(* end of the ring divided by 2 pi, whether the caller asked for that      *)
(* point or not; when the caller's last point is the end of the ring, it   *)
(* is the mu of the last record divided by 2 pi.                           *)
(***************************************************************************)
C8_TuneSourcePoint ==
    (op = "get_twiss" /\ pc = "done") =>
        /\ \E e \in 1..Len(tw_refpts) :
            /\ tw_refpts[e] = Len(ring)
            /\ e = Len(mx) /\ e = Len(my)
            /\ tune = <<RDiv(mx[e], R(2 * Pi)), RDiv(my[e], R(2 * Pi))>>
        /\ Last(requested) = Len(ring) =>
            tune = <<RDiv(Last(twiss).mu[1], R(2 * Pi)),
                     RDiv(Last(twiss).mu[2], R(2 * Pi))>>
        /\ \A pl \in 0..1 : StablePlane(ring, pl) =>
            \E j \in 0..Len(tw_refpts) :
                RMul(tune[pl + 1], R(2 * Pi))
                    = RAdd(PhaseModPi(ring, pl, Len(ring)), R(j * Pi))

\* The caller asked for points 0 and 1 of a ring of four elements: the tune
\* is the phase of the third point tracked, which has no record.
C8_Witness ==
    /\ op = "get_twiss" /\ pc = "done" /\ Len(ring) = 4 /\ StableRing(ring)
    /\ requested = <<0, 1>> /\ Len(twiss) = 2 /\ Len(mx) = 3
    /\ mx[3] # mx[2] /\ my[3] # my[2]
    /\ RGt(tune[1], R(0)) /\ RGt(tune[2], R(0))

(***************************************************************************)
(* C9: both components of the tune get_twiss returns for a stable ring     *)
(* are in [0, 1), whatever the reference points asked for.                 *)
(***************************************************************************)
C9_TuneInUnitInterval ==
    (op = "get_twiss" /\ pc = "done" /\ StableRing(ring)) =>
        \A i \in 1..2 : RLe(R(0), tune[i]) /\ RLt(tune[i], R(1))

\* One cell with cos(mu) = -3/5 in y, asked for at the end of the ring
\* only: the tune in y is arctan(-4/3) / (2 pi), below zero.
C9_Witness ==
    /\ op = "get_twiss" /\ pc = "done" /\ StableRing(ring)
    /\ Len(ring) = 2 /\ requested = <<2>>
    /\ RLt(tune[2], R(0))
    /\ tune[2] = RDiv(Arctan(Q(-4, 3)), R(2 * Pi))

(***************************************************************************)
(* C10: when get_twiss returns for a stable ring (in each plane the        *)
(* radicand is positive and M01 # 0, and every segment block has a         *)
(* determinant other than zero), beta0 is above zero in both planes and    *)
(* so is every beta of every record.                                       *)
(***************************************************************************)
C10_BetaPositive ==
    (op = "get_twiss" /\ pc = "done" /\ StableRing(ring)
        /\ \A k \in 1..Len(mstack) : \A pl \in 0..1 :
               Det2(Block(mstack[k], pl)) # R(0)) =>
        /\ \A i \in 1..2 : RGt(beta0[i], R(0))
        /\ \A k \in 1..Len(twiss) : \A i \in 1..2 : RGt(twiss[k].beta[i], R(0))
        /\ \A k \in 1..Len(bx) : RGt(bx[k], R(0)) /\ RGt(by[k], R(0))

\* Two cells with M01 < 0 in x: sin_mu_end is below zero there.
C10_Witness ==
    /\ op = "get_twiss" /\ pc = "done" /\ StableRing(ring)
    /\ RLt(Block(m44, 0)[1][2], R(0))
    /\ RGt(Block(m44, 1)[1][2], R(0))
    /\ Len(twiss) = 5
    /\ RGt(beta0[1], R(0))

(***************************************************************************)
(* C11: with get_chrom true, get_twiss calls itself once, at dp + ddp,     *)
(* with the reference points of its caller and get_chrom false; the call   *)
(* made makes no further call of get_twiss, so at most two calls are open  *)
(* at a time and the operation ends; the chromaticity is                   *)
(* (tune_shifted - tune) / ddp.                                            *)
(***************************************************************************)
C11_Calls ==
    op = "get_twiss" =>
        /\ depth \in 1..2
        /\ Len(tcalls) \in 1..2
        /\ Len(tcalls) = 2 =>
              /\ tcalls[1].get_chrom
              /\ ~tcalls[2].get_chrom
              /\ tcalls[2].dp = RAdd(tcalls[1].dp, IF depth = 2 THEN frame[1].ddp ELSE ddp)
              /\ tcalls[2].refpts = tcalls[1].refpts
        /\ depth = 2 => (~get_chrom /\ Len(tcalls) = 2)
        /\ pc = "done" =>
              /\ depth = 1
              /\ Len(tcalls) = (IF get_chrom THEN 2 ELSE 1)
              /\ tcalls[1] = [dp |-> dp, refpts |-> requested, get_chrom |-> get_chrom]

C11_Return ==
    (pc = "chrom_return" /\ pc' = "done") =>
        /\ chrom' = <<RDiv(RSub(tune[1], frame[1].tune[1]), frame[1].ddp),
                      RDiv(RSub(tune[2], frame[1].tune[2]), frame[1].ddp)>>
        /\ tune' = frame[1].tune
        /\ dp = RAdd(frame[1].dp, frame[1].ddp)

\* The steps a call of get_twiss has left at most: those of the call of
\* itself it has yet to make, and those of the call that is running.
C11_StepsLeft ==
    LET own == (2 * MAX_ITERATIONS) + 20
        at  == CASE pc = "orbit_loop"   -> 10 + (2 * (MAX_ITERATIONS - itercount))
                 [] pc = "m44_enter"    -> 8
                 [] pc = "m44_track"    -> 7
                 [] pc = "twiss_x"      -> 6
                 [] pc = "twiss_y"      -> 5
                 [] pc = "twiss_out"    -> 4
                 [] pc = "chrom_call"   -> 3
                 [] pc = "chrom_return" -> 1
                 [] OTHER               -> 0
    IN  IF pc = "idle" THEN 3 * own
        ELSE at + (IF get_chrom /\ pc \notin {"done", "error"} THEN own ELSE 0)

C11_Ends == C11_StepsLeft' < C11_StepsLeft /\ C11_StepsLeft' >= 0

C11_BoundedRecursion ==
    /\ []C11_Calls
    /\ [][C11_Return /\ C11_Ends]_vars

\* The cell with momentum-dependent strengths, asked for at all its points
\* with ddp = DDP: the tune in x goes from 590/4000 to 1410/4000.
C11_Witness ==
    /\ op = "get_twiss" /\ pc = "done" /\ get_chrom /\ ring = ChromCellRing
    /\ requested = <<0, 1, 2>> /\ ddp = R(DDP)
    /\ Len(tcalls) = 2 /\ tcalls[2].dp = R(DDP)
    /\ tune[1] = Q(590, 2 * Pi)
    /\ chrom[1] = RDiv(Q(1410 - 590, 2 * Pi), R(DDP))

(***************************************************************************)
(* C12: without get_chrom the chromaticity get_twiss returns is None and   *)
(* every component of every dispersion is NaN; with get_chrom the          *)
(* chromaticity has two components and the dispersion of every record is   *)
(* set from the orbit at the shifted momentum.                             *)
(***************************************************************************)
\* The strengths of the ring do not depend on momentum.
MomentumIndependent(rng) ==
    \A i \in 1..Len(rng) : rng[i].qx = rng[i].kx /\ rng[i].qy = rng[i].ky

\* The orbit of record r at the shifted momentum, from its dispersion.
ShiftedOrbit(r, d) ==
    [i \in 1..4 |-> RAdd(r.closed_orbit[i], RMul(r.dispersion[i], d))]

C12_OptionalOutputs ==
    (op = "get_twiss" /\ pc = "done") =>
        /\ ~get_chrom =>
            /\ chrom = None
            /\ \A k \in 1..Len(twiss) :
                 /\ Len(twiss[k].dispersion) = 4
                 /\ \A i \in 1..4 : IsNaN(twiss[k].dispersion[i])
        /\ get_chrom =>
            /\ chrom # None /\ Len(chrom) = 2
            /\ Len(twiss) = Len(requested)
            /\ \A k \in 1..Len(twiss) :
                 LET ob == ShiftedOrbit(twiss[k], ddp)
                     db == RAdd(dp, ddp)
                 IN  /\ \A i \in 1..4 : ~IsNaN(twiss[k].dispersion[i])
                     /\ (InvertibleRing(ring) /\ MomentumIndependent(ring)) =>
                          LET f == FixedPoint(ring, db)
                          IN  ob = Take4(Track(ring, <<f[1], f[2], f[3], f[4], db, R(0)>>,
                                               requested[k]))
                     /\ (StableRing(ring) /\ requested[k] = 0) =>
                          OneTurn(ring, ob, db) = ob

\* Two cells with a dispersive kick, asked for with get_chrom: the
\* dispersion in x is not zero and differs between the records.
C12_Witness ==
    /\ op = "get_twiss" /\ pc = "done" /\ get_chrom
    /\ ring = DispersiveTwoCellRing /\ requested = <<0, 1, 4>>
    /\ chrom = <<R(0), R(0)>>
    /\ twiss[1].dispersion[1] # R(0)
    /\ twiss[1].dispersion # twiss[2].dispersion
    /\ twiss[1].closed_orbit = Zero4

(***************************************************************************)
(* C13: the dispersion of a record.                                        *)
(***************************************************************************)
\* The closed orbit at point p of a ring with an invertible map that does
\* not depend on momentum, at momentum d.
ClosedOrbitAt(rng, d, p) ==
    LET f == FixedPoint(rng, d)
    IN  Take4(Track(rng, <<f[1], f[2], f[3], f[4], d, R(0)>>, p))

\* C13 as the specification states it: the dispersion of every record has
\* two components, (orbit_shifted - orbit) / ddp for x and for y.
C13_DispersionTwoVector ==
    (op = "get_twiss" /\ pc = "done" /\ get_chrom
        /\ InvertibleRing(ring) /\ MomentumIndependent(ring)) =>
        \A k \in 1..Len(twiss) :
            LET o  == ClosedOrbitAt(ring, dp, requested[k])
                ob == ClosedOrbitAt(ring, RAdd(dp, ddp), requested[k])
            IN  twiss[k].dispersion
                    = <<RDiv(RSub(ob[1], o[1]), ddp), RDiv(RSub(ob[3], o[3]), ddp)>>

\* C13 as the code has it: the dispersion of every record has four
\* components, (orbit_shifted - orbit) / ddp for x, px, y and py, when
\* get_chrom is true, and four NaN otherwise.
C13_DispersionFourVector ==
    (op = "get_twiss" /\ pc = "done") =>
        \A k \in 1..Len(twiss) :
            /\ DOMAIN twiss[k].dispersion = 1..4
            /\ (get_chrom /\ InvertibleRing(ring) /\ MomentumIndependent(ring)) =>
                 LET o  == ClosedOrbitAt(ring, dp, requested[k])
                     ob == ClosedOrbitAt(ring, RAdd(dp, ddp), requested[k])
                 IN  /\ twiss[k].closed_orbit = o
                     /\ \A i \in 1..4 :
                          twiss[k].dispersion[i] = RDiv(RSub(ob[i], o[i]), ddp)

\* A record whose dispersion is not zero in x and in px.
C13_Witness ==
    /\ op = "get_twiss" /\ pc = "done" /\ get_chrom
    /\ ring = DispersiveTwoCellRing /\ ddp = R(2 * DDP)
    /\ \E k \in 1..Len(twiss) :
         /\ twiss[k].dispersion[1] # R(0)
         /\ twiss[k].dispersion[2] # R(0)
         /\ twiss[k].dispersion[3] = R(0)

C15_OrbitCalls(k) ==
    /\ Len(calls) >= k + 1
    /\ \A n \in 1..k : calls[n].nprobes = 5
    /\ calls[k + 1].nprobes = 1

C15_BatchedTracking ==
    /\ pc = "orbit_loop" =>
          (Len(calls) = itercount /\ \A n \in 1..Len(calls) : calls[n].nprobes = 5)
    /\ (op = "find_orbit4" /\ pc = "done") =>
          (Len(calls) = itercount + 1 /\ C15_OrbitCalls(itercount))
    /\ (op = "find_m44" /\ pc = "done") =>
          /\ Last(calls).nprobes = 8
          /\ IF m_keeplattice
             THEN Len(calls) = itercount + 2 /\ C15_OrbitCalls(itercount)
             ELSE Len(calls) = 1
          /\ LET in_mat == M44InMat(orbit4, dp, XYStep)
             IN  \A p \in 1..4 :
                    /\ RSub(in_mat[p][p], orbit4[p]) = RDiv(XYStep, R(2))
                    /\ RSub(orbit4[p], in_mat[p + 4][p]) = RDiv(XYStep, R(2))
    /\ pc = "orbit_loop" =>
          LET in_mat == InMat(r_in)
          IN  /\ in_mat[5] = r_in
              /\ \A p \in 1..4 : RSub(in_mat[p][p], r_in[p]) = R(STEP_SIZE)

\* find_m44 found the orbit itself in two iterations: four tracker calls.
C15_Witness ==
    /\ op = "find_m44" /\ pc = "done" /\ m_keeplattice
    /\ itercount = 2 /\ Len(calls) = 4
    /\ calls[1].nprobes = 5 /\ calls[3].nprobes = 1 /\ calls[4].nprobes = 8

(***************************************************************************)
(* C16: for a ring that is a drift of length L, find_orbit4 at dp = 0      *)
(* returns the orbit (0, 0, 0, 0) and find_m44 returns the matrix          *)
(* [[1, L, 0, 0], [0, 1, 0, 0], [0, 0, 1, L], [0, 0, 0, 1]].               *)
(***************************************************************************)
PureDrift(rng) == \A i \in 1..Len(rng) : rng[i].kind = "drift"

DriftMatrix(L) ==
    <<<<R(1), L, R(0), R(0)>>, <<R(0), R(1), R(0), R(0)>>,
      <<R(0), R(0), R(1), L>>, <<R(0), R(0), R(0), R(1)>>>>

C16_PureDrift ==
    /\ (op = "find_orbit4" /\ pc = "done" /\ PureDrift(ring) /\ dp = R(0))
          => (orbit4 = Zero4 /\ fault = "none")
    /\ (op = "find_m44" /\ pc = "done" /\ PureDrift(ring))
          => /\ m44 = DriftMatrix(SPos(ring, Len(ring)))
             /\ (m_keeplattice /\ dp = R(0)) => orbit4 = Zero4

\* find_m44 found the orbit of the drift of length 3/2 itself.
C16_Witness ==
    /\ op = "find_m44" /\ pc = "done" /\ ring = LongDriftRing /\ dp = R(0)
    /\ m_keeplattice /\ orbit4 = Zero4
    /\ m44[1][2] = Q(3, 2) /\ m44[3][4] = Q(3, 2)

(***************************************************************************)
(* C17: the one-turn matrix M of find_m44 and the symplectic form J.       *)
(***************************************************************************)
J4 ==
    <<<<R(0), R(1), R(0), R(0)>>, <<R(-1), R(0), R(0), R(0)>>,
      <<R(0), R(0), R(0), R(1)>>, <<R(0), R(0), R(-1), R(0)>>>>

Transpose4(m) == [i \in 1..4 |-> [j \in 1..4 |-> m[j][i]]]

MatMul4(m, n) ==
    [i \in 1..4 |-> [j \in 1..4 |->
        RAdd(RAdd(RMul(m[i][1], n[1][j]), RMul(m[i][2], n[2][j])),
             RAdd(RMul(m[i][3], n[3][j]), RMul(m[i][4], n[4][j])))]]

\* The determinant of the matrix of rows rs and columns cs of m, by the
\* first of those rows.
RECURSIVE DetOf(_, _, _)
DetOf(m, rs, cs) ==
    IF Len(rs) = 0 THEN R(1)
    ELSE LET without(q, n) == [t \in 1..(Len(q) - 1) |-> IF t < n THEN q[t] ELSE q[t + 1]]
             term(n) == RMul(RMul(R(IF n % 2 = 1 THEN 1 ELSE -1), m[rs[1]][cs[n]]),
                             DetOf(m, without(rs, 1), without(cs, n)))
             sum[n \in 0..Len(cs)] == IF n = 0 THEN R(0) ELSE RAdd(sum[n - 1], term(n))
         IN  sum[Len(cs)]

Det4(m) == DetOf(m, <<1, 2, 3, 4>>, <<1, 2, 3, 4>>)

Symplectic(m) == MatMul4(Transpose4(m), MatMul4(J4, m)) = J4

\* Every element of the ring is a symplectic map.
Conservative(rng) ==
    \A i \in 1..Len(rng) : rng[i].kind \in {"drift", "lens", "sext"}

\* C17 as the specification states it: for a ring of symplectic maps the
\* matrix M of find_m44 has M^T J M = J and determinant 1.
C17_SymplecticAlways ==
    (op = "find_m44" /\ pc = "done" /\ Conservative(ring)) =>
        (Symplectic(m44) /\ Det4(m44) = R(1))

\* C17 for a ring whose one-turn map is a linear symplectic map A plus a
\* constant: find_m44 returns M = A, with M^T J M = J and determinant 1, at
\* the end of the ring and at every reference point.
C17_SymplecticLinear ==
    (op = "find_m44" /\ pc = "done" /\ AffineRing(ring)) =>
        /\ m44 = SegmentMatrix4(ring, Len(ring))
        /\ Symplectic(m44) /\ Det4(m44) = R(1)
        /\ \A k \in 1..Len(mstack) : Symplectic(mstack[k]) /\ Det4(mstack[k]) = R(1)

\* Two cells with different strengths in the two planes, with the step of
\* XYDEFSTEP and the orbit found by find_m44.
C17_Witness ==
    /\ op = "find_m44" /\ pc = "done" /\ Len(ring) = 4 /\ AffineRing(ring)
    /\ XYStep = R(XYDEFSTEP) /\ m_keeplattice
    /\ m44[1][1] # m44[3][3] /\ m44[2][1] # R(0)
    /\ Len(mstack) = 5

(***************************************************************************)
(* C18: split_ignoring_parentheses returns the pieces of the string        *)
(* between the delimiters that are outside every (...) group, whatever the *)
(* number of groups; joined with the delimiter the pieces give the string. *)
(***************************************************************************)
\* Position i (from 1) of str is inside one of the groups.
InGroup(str, i) ==
    \E n \in 1..Len(FindIter(str, 1)) :
        FindIter(str, 1)[n][1] < i /\ i <= FindIter(str, 1)[n][2]

\* The pieces of str from position i on, cur being the piece begun.
RECURSIVE SplitOutside(_, _, _, _)
SplitOutside(str, d, i, cur) ==
    IF i > Len(str) THEN <<cur>>
    ELSE IF str[i] = d /\ ~InGroup(str, i)
         THEN <<cur>> \o SplitOutside(str, d, i + 1, <<>>)
    ELSE SplitOutside(str, d, i + 1, Append(cur, str[i]))

RECURSIVE Join(_, _)
Join(parts, d) ==
    IF Len(parts) = 0 THEN <<>>
    ELSE IF Len(parts) = 1 THEN parts[1]
    ELSE parts[1] \o <<d>> \o Join(Tail(parts), d)

C18_SplitOutsideGroups ==
    (op = "split_ignoring_parentheses" /\ pc \in {"done", "error"}) =>
        /\ pc = "done"
        /\ l_out = SplitOutside(l_in, l_arg, 1, <<>>)
        /\ Join(l_out, l_arg) = l_in

\* "(),()": two groups with a delimiter between them, and the assertion
\* at the end fails.
C18_Witness ==
    /\ op = "split_ignoring_parentheses" /\ pc = "error"
    /\ l_in = <<"(", ")", ",", "(", ")">> /\ l_arg = ","
    /\ fault = "AssertionError"

(***************************************************************************)
(* C19: parse_lines of tracy.py returns the text in lower case without its *)
(* {...} comments and without white space, split at every ";" outside a    *)
(* comment; no entry has white space, a brace or ";" in it, and there is   *)
(* one entry more than there are ";" outside comments.                     *)
(***************************************************************************)
\* Position i is in a comment: the brace nearest before it opens one.
InComment(str, i) ==
    \E j \in 1..(i - 1) :
        /\ str[j] = "{"
        /\ \A t \in (j + 1)..(i - 1) : str[t] \notin {"{", "}"}

\* Position i is part of what is left: no brace, no white space, and
\* outside every comment.
Kept(str, i) ==
    /\ str[i] \notin {"{", "}", " ", "\n"}
    /\ ~InComment(str, i)

\* The characters left from position i on, in lower case.
RECURSIVE KeptFrom(_, _)
KeptFrom(str, i) ==
    IF i > Len(str) THEN <<>>
    ELSE (IF Kept(str, i) THEN <<Lower(str[i])>> ELSE <<>>) \o KeptFrom(str, i + 1)

RECURSIVE TextLines(_, _)
TextLines(lines, n) ==
    IF n = 0 THEN <<>>
    ELSE LET l == Strip(LowerAll(lines[n]))
         IN  TextLines(lines, n - 1)
                 \o (IF Len(l) = 0 \/ l[1] = "!" THEN <<>> ELSE <<l>>)

Continued(l) == l[Len(l)] = "&"

\* The text of a line is the line without the "&" it ends in.
TextOf(l) == IF Continued(l) THEN SubSeq(l, 1, Len(l) - 1) ELSE l

RECURSIVE Flatten(_)
Flatten(q) == IF Len(q) = 0 THEN <<>> ELSE Head(q) \o Flatten(Tail(q))

C20_ElegantParseLines ==
    (op = "elegant.parse_lines" /\ pc = "done") =>
        LET lines == TextLines(Split(l_in, "\n"), Len(Split(l_in, "\n")))
        IN  Flatten(l_out) = Flatten([n \in 1..Len(lines) |-> TextOf(lines[n])])

\* "A&": the only line ends in "&" and nothing is returned.
C20_Witness ==
    /\ op = "elegant.parse_lines" /\ pc = "done"
    /\ l_in = <<"A", "&">>
    /\ l_out = <<>>

(***************************************************************************)
(* C23: in one call of find_orbit4, find_m44 or get_twiss (the call of     *)
(* get_twiss inside it included) a tracker call with keep_lattice=True     *)
(* follows a tracker call of the same call with keep_lattice=False; the    *)
(* first tracker call of every find_orbit4 passes False; find_m44 passes   *)
(* True only when it has run find_orbit4 itself.                           *)
(***************************************************************************)
\* Call n of the log is the first iteration of a find_orbit4: five probes,
\* and the call before, if any, was not an iteration.
FirstOfOrbit(n) ==
    calls[n].nprobes = 5 /\ (n = 1 \/ calls[n - 1].nprobes # 5)

C23_ReuseHintOrdering ==
    /\ \A n \in 1..Len(calls) :
        /\ calls[n].keep => \E k \in 1..(n - 1) : ~calls[k].keep
        /\ FirstOfOrbit(n) => ~calls[n].keep
        /\ calls[n].nprobes = 8 =>
              (calls[n].keep <=> (op = "find_m44" /\ n > 1 /\ calls[n - 1].nprobes = 1))
    /\ Len(calls) > 0 => ~calls[1].keep

\* get_twiss with chromaticity has returned: the call inside it started
\* again with keep_lattice=False, after calls with True.
C23_Witness ==
    /\ op = "get_twiss" /\ pc = "done" /\ get_chrom
    /\ \E n \in 3..Len(calls) :
        /\ calls[n - 1].nprobes = 8 /\ ~calls[n - 1].keep
        /\ calls[n - 2].keep
        /\ FirstOfOrbit(n) /\ ~calls[n].keep
        /\ calls[Len(calls) - 1].keep

(***************************************************************************)
(* C24: every probe of every tracker call of find_orbit4 has the dp        *)
(* argument as its 5th component and 0 as its 6th; a Newton update changes *)
(* the first four components of the iterate only.                          *)
(***************************************************************************)
C24_Step ==
    /\ (pc = "orbit_loop" /\ Len(calls') = Len(calls) + 1) =>
          /\ calls'[Len(calls')].dps = {dp}
          /\ calls'[Len(calls')].cts = {R(0)}
    /\ (pc = "orbit_loop" /\ pc' = "orbit_loop") =>
          /\ r_in'[5] = r_in[5]
          /\ r_in'[6] = r_in[6]

C24_FixedMomentum == [][C24_Step]_vars

\* Off momentum, the second iteration has moved the iterate.
C24_Witness ==
    /\ op = "find_orbit4" /\ pc = "orbit_loop" /\ itercount = 2
    /\ dp # R(0) /\ r_in[5] = dp /\ r_in[6] = R(0)
    /\ Take4(r_in) # Zero4
    /\ calls[2].dps = {dp} /\ calls[2].nprobes = 5

(***************************************************************************)
(* C25: betatron_phase_unwrap(m) has the length of m, and its element i is *)
(* m[i] plus pi times the number of j in 2..i with m[j] < m[j-1]; the      *)
(* first element is not shifted and a step of zero adds nothing.           *)
(***************************************************************************)
NegativeSteps(m, i) == { j \in 2..i : RLt(m[j], m[j - 1]) }

C25_UnwrapRule ==
    (op = "betatron_phase_unwrap" /\ pc = "done") =>
        LET m == m_raw[1]
        IN  /\ Len(mx) = Len(m)
            /\ \A i \in 1..Len(m) :
                  mx[i] = RAdd(m[i], R(Pi * Cardinality(NegativeSteps(m, i))))
            /\ Len(m) > 0 => mx[1] = m[1]
            /\ \A i \in 2..Len(m) :
                  m[i] = m[i - 1] => RSub(mx[i], m[i]) = RSub(mx[i - 1], m[i - 1])

\* A negative first phase, a step of zero and two negative steps.
C25_Witness ==
    /\ op = "betatron_phase_unwrap" /\ pc = "done"
    /\ m_raw[1] = <<R(-1), R(-1), R(-(Pi \div 4)), R(-(Pi \div 2) + 1)>>
    /\ mx = <<R(-1), R(-1), R(Pi - (Pi \div 4)), R(Pi + (Pi \div 2) + 1)>>

(***************************************************************************)
(* C26: find_m44 leaves the refpts of its caller as they were, and a       *)
(* second call of find_m44 with the same refpts object on the same ring    *)
(* returns a stack of as many matrices as the first.                       *)
(***************************************************************************)
C26_RefptsUnchanged ==
    (op = "find_m44" /\ pc = "done") =>
        /\ refpts = requested
        /\ prev # <<>> =>
            /\ ring = prev[1].ring
            /\ refpts = prev[1].refpts
            /\ Len(mstack) = prev[1].nstack

\* Points 0 and 1 of a ring of two elements: the first call returns two
\* matrices and leaves [0, 1, 2] with its caller, the second returns three.
C26_Witness ==
    /\ op = "find_m44" /\ pc = "done" /\ prev # <<>>
    /\ Len(ring) = 2
    /\ prev[1].refpts = <<0, 1>> /\ prev[1].nstack = 2
    /\ refpts = <<0, 1, 2>> /\ Len(mstack) = 3

(***************************************************************************)
(* C21: divide with keep_axis=False leaves T1 and R1 on the first slice    *)
(* only and T2 and R2 on the last slice only; with keep_axis=True they are *)
(* on every slice; the other entrance fields are on the first slice only   *)
(* and the other exit fields on the last slice only.                       *)
(***************************************************************************)
Has(id, k) == k \in DOMAIN heap[id].attrs

C21_KeepAxis ==
    (op = "divide" /\ pc = "done") =>
        \A n \in 1..Len(element_list) :
            LET sl == element_list[n]
            IN  /\ \A k \in {"T1", "R1"} : Has(e_self, k) =>
                      (Has(sl, k) <=> (keep_axis \/ n = 1))
                /\ \A k \in {"T2", "R2"} : Has(e_self, k) =>
                      (Has(sl, k) <=> (keep_axis \/ n = Len(element_list)))
                /\ \A k \in FieldsFrom(entrance_fields, 2) : Has(e_self, k) =>
                      (Has(sl, k) <=> n = 1)
                /\ \A k \in FieldsFrom(exit_fields, 2) : Has(e_self, k) =>
                      (Has(sl, k) <=> n = Len(element_list))

\* Three slices with keep_axis=False: T1 is on the slice in the middle.
\* With keep_axis=True it is on the first slice only.
C21_Witness ==
    /\ op = "divide" /\ pc = "done" /\ ~keep_axis
    /\ Len(element_list) = 3
    /\ Has(e_self, "T1") /\ Has(e_self, "R2")
    /\ Has(element_list[2], "T1") /\ Has(element_list[1], "R2")

(***************************************************************************)
(* C22 as stated: for an insert list in ascending order the lengths of the *)
(* returned elements sum to the length of the drift; the inserted elements *)
(* are returned in the order given, each centred on fraction * Length; no  *)
(* drift piece of length zero is returned and a None item inserts nothing; *)
(* the drift is not modified.                                              *)
(***************************************************************************)
LengthOf(id) == heap[id].attrs["Length"]

LengthsOf(ids) == [n \in 1..Len(ids) |-> LengthOf(ids[n])]

AscendingList(il) ==
    \A i \in 1..Len(il) : \A j \in i..Len(il) : RLe(il[i][1], il[j][1])

\* The items of il that are not None.
RECURSIVE Inserted(_)
Inserted(il) ==
    IF Len(il) = 0 THEN <<>>
    ELSE (IF Head(il)[2] = None THEN <<>> ELSE <<Head(il)>>) \o Inserted(Tail(il))

\* The positions of element_list that hold an inserted element.
RECURSIVE InsertedAt(_)
InsertedAt(n) ==
    IF n = 0 THEN <<>>
    ELSE InsertedAt(n - 1)
             \o (IF element_list[n] <= Len(prev[1]) THEN <<n>> ELSE <<>>)

IsPiece(id) == id > Len(prev[1])

InsertContract ==
    LET items == Inserted(insert_list)
        at    == InsertedAt(Len(element_list))
    IN  /\ RSum(LengthsOf(element_list)) = LengthOf(e_self)
        /\ Len(at) = Len(items)
        /\ \A k \in 1..Len(items) :
              /\ element_list[at[k]] = items[k][2][1]
              /\ RAdd(RSum(LengthsOf(SubSeq(element_list, 1, at[k] - 1))),
                      RMul(Q(1, 2), LengthOf(element_list[at[k]])))
                   = RMul(items[k][1], LengthOf(e_self))
        /\ \A n \in 1..Len(element_list) :
              IsPiece(element_list[n]) =>
                  /\ heap[element_list[n]].cls = "Drift"
                  /\ LengthOf(element_list[n]) # R(0)
        /\ SubSeq(heap, 1, Len(prev[1])) = prev[1]

C22_LengthConservation ==
    (op = "insert" /\ pc = "done" /\ AscendingList(insert_list)) => InsertContract

(***************************************************************************)
(* C22, for a drift whose length is not zero: the same contract.           *)
(***************************************************************************)
C22_LengthConservationNonZero ==
    (op = "insert" /\ pc = "done" /\ AscendingList(insert_list)
        /\ LengthOf(e_self) # R(0)) => InsertContract

\* A quadrupole of length 2/5 in the middle of a drift of length 2, after a
\* marker at its start: no piece before the marker, pieces of 4/5 around the
\* quadrupole.
C22_Witness ==
    /\ op = "insert" /\ pc = "done"
    /\ LengthOf(e_self) = R(2)
    /\ insert_list = <<<<R(0), Ref(2)>>, <<Q(1, 2), Ref(4)>>>>
    /\ element_list = <<2, 5, 4, 6>>
    /\ LengthOf(5) = Q(4, 5) /\ LengthOf(6) = Q(4, 5)

(***************************************************************************)
(* C27: in both loaders 'inv(name)' contributes the elements of the chunk  *)
(* 'name' in reverse order, a copy with EntranceAngle and ExitAngle        *)
(* swapped for each Dipole and the element itself for any other; the chunk *)
(* stored and its elements are not modified; the inverse of an inverted    *)
(* chunk has the order and the angles of the original.                     *)
(***************************************************************************)
InvOf(name) == INV \o <<"(">> \o name \o <<")">>

\* The lines l_in[n] whose value is inv(name) or q,inv(name) for a chunk
\* defined before, with the number of elements that come before the
\* contribution of inv(name).
InvLines ==
    { <<n, m, off>> \in (1..Len(l_in)) \X (1..Len(l_in)) \X {0, 1} :
        /\ m < n
        /\ l_in[n][1] \in DOMAIN chunks
        /\ l_in[n][2] = (IF off = 0 THEN <<>> ELSE <<"q", ",">>) \o InvOf(l_in[m][1]) }

\* Object o is a copy of the dipole s with the two angles swapped.
SwappedCopy(o, s) ==
    /\ o # s
    /\ heap[o].cls = "Dipole"
    /\ DOMAIN heap[o].attrs = DOMAIN heap[s].attrs
    /\ heap[o].attrs["EntranceAngle"] = heap[s].attrs["ExitAngle"]
    /\ heap[o].attrs["ExitAngle"] = heap[s].attrs["EntranceAngle"]
    /\ \A k \in (DOMAIN heap[s].attrs) \ {"EntranceAngle", "ExitAngle"} :
          heap[o].attrs[k] = heap[s].attrs[k]

ContentsOf(ids) == [i \in 1..Len(ids) |-> heap[ids[i]]]

C27_Inverted ==
    op \in {"tracy", "elegant"} =>
        /\ \A t \in InvLines :
            LET src == chunks[l_in[t[2]][1]]
                out == chunks[l_in[t[1]][1]]
            IN  /\ Len(out) = Len(src) + t[3]
                /\ \A i \in 1..Len(src) :
                      LET s == src[Len(src) + 1 - i]
                          o == out[i + t[3]]
                      IN  IF heap[s].cls = "Dipole" THEN SwappedCopy(o, s) ELSE o = s
        /\ \A t \in InvLines : \A u \in InvLines :
              (t[3] = 0 /\ u[3] = 0 /\ u[1] = t[2]) =>
                  ContentsOf(chunks[l_in[t[1]][1]]) = ContentsOf(chunks[l_in[u[2]][1]])

\* A line leaves every object and every chunk there is as it was.
C27_Unmodified ==
    pc = "expand_lines" =>
        /\ SubSeq(heap', 1, Len(heap)) = heap
        /\ \A k \in DOMAIN chunks : chunks'[k] = chunks[k]

C27_ChunkInversion == []C27_Inverted /\ [][C27_Unmodified]_vars

\* a = d,q,e; b = inv(a); c = inv(b): two copies of each dipole, and c has
\* the contents of a.
C27_Witness ==
    /\ op \in {"tracy", "elegant"} /\ pc = "done"
    /\ l_in = <<<<ChunkNames[1], VAL_DQE>>, <<ChunkNames[2], VAL_INV_A>>,
                <<ChunkNames[3], VAL_INV_B>>>>
    /\ chunks[ChunkNames[1]] = <<1, 3, 2>>
    /\ chunks[ChunkNames[2]] = <<4, 3, 5>>
    /\ chunks[ChunkNames[3]] = <<6, 3, 7>>
    /\ heap[4].attrs["EntranceAngle"] = R(0)
    /\ heap[5].attrs["ExitAngle"] = Q(1, 10)
    /\ heap[7] = heap[2] /\ heap[6] = heap[1]

=============================================================================
